---- MODULE Spec2Model ----
(***************************************************************************)
(* Download orchestration of AutoDownloader.                               *)
(*                                                                         *)
(* Spec / SpecLive : the parallel schedulers (ParallelDownloadManager of   *)
(*   download_optimization.py, ParallelVideoDownloader of                  *)
(*   video_optimization.py), their workers and the driver that re-creates  *)
(*   them on a later run.  SpecLive is the use main.py makes of them: one  *)
(*   download_all call per manager.                                        *)
(* SpecCourse : CourseDownloader.download_course of core/downloader.py     *)
(*   with its manifest (services/manifest_service.py) and FileDownloader   *)
(*   (services/file_service.py), over several runs of the process.         *)
(* SpecFetcher : FileDownloader.download called on any destination.        *)
(***************************************************************************)
EXTENDS Integers, Sequences, FiniteSets, TLC

\* ------------------------------------------------------------------ bounds
MaxTasks == 2
BodyChunks == 1
MaxLessons == 2
MaxRuns == 2
MaxApiCalls == 4
MaxThreads == 2
MaxTitleLen == 3
MaxLocal == 3
MaxRemote == 17
MaxNameLen == 3
MaxLength == 12
MaxCourses == 2
MaxTime == 5
MaxCatalog == 2
MaxCalls == 4
MaxSize == 8
MaxSegmentsArg == 3

Paths == {"p1", "p2"}
Kinds == {"pdf", "video"}
RequestedWorkers == {0, 2, 15}
Exceptions == {"Timeout", "ConnectionError", "HTTPError", "OSError"}

\* -------------------------------------------------------- program constants
PDF_MAX_WORKERS == 10
VIDEO_MAX_CONCURRENT == 4
\* seconds between two notifications
MIN_NOTIFICATION_INTERVAL == 1

VARIABLES
    kind,             \* which scheduler class this manager is
    requested,        \* the max_workers / max_concurrent_videos argument
    disk,             \* the filesystem: existing path -> size in chunks
    tasks,            \* self.tasks: sequence of DownloadTask / VideoDownloadTask
    future,           \* per task: state of its Future and position of its worker
    recv,             \* per task: chunks read from the response by its worker
    completed_tasks,
    failed_tasks,
    skipped_tasks,
    pc,               \* the thread calling download_all: idle, running, returned
    second,           \* this is the second invocation (same manager, or next run)
    run,              \* course run that created this manager
    execs,            \* per task: times a worker began it in the current call
    fresh,            \* no task's destination existed when the call started
    prevOk,           \* every fetch of the previous course run succeeded
    fd,               \* the FileDownloader.download call in progress
    cpc,              \* download_course: stopped, lesson, materials, pdfs, ...
    idx,              \* download_course: position in the lesson list
    manifest,         \* FileManifestManager.manifest, the in-memory dict
    manifest_file,    \* files_manifest.json on disk
    runs,             \* download_course runs started so far
    loaded,           \* the manifest as loaded at the start of this run
    processed,        \* lessons download_lesson_materials was called for in this run
    startedIn,        \* per lesson: first run whose start_lesson marked it, 0 if none
    th,               \* threads inside FileManifestManager.add_file
    api,              \* the last call made on the FileManifestManager from outside
    det,              \* find_incomplete_courses: its inputs and what it returned
    san,              \* sanitize_filename: its input, its result, the result again
    cnt,              \* get_course_downloaded_lessons: the directory and the answer
    batch,            \* run_downloader: the selected courses and how far it got
    cfg,              \* the configuration and what start-up made of it
    tg,               \* TelegramNotifier: clock, last_sent and the posts made
    mon,              \* ProgressMonitor: running flag and its tasks dict
    scan,             \* find_incomplete_courses: the loop over the local courses
    pair,             \* find_incomplete_courses: the catalog and the course paired
    obs,              \* get_progress_summary: the call in progress and its result
    life,             \* start/stop of a monitor or keep-alive and its threads
    seg               \* download_video_segmented: ranges, parts and output file

schedVars == <<kind, requested, tasks, future, recv, completed_tasks,
               failed_tasks, skipped_tasks, pc, second, run, execs, fresh, prevOk>>
courseVars == <<fd, cpc, idx, manifest, manifest_file, runs, loaded, processed,
                startedIn>>
extVars == <<san, cnt, batch, cfg, tg, mon, scan, pair, obs, life, seg>>
exceptSan == <<cnt, batch, cfg, tg, mon, scan, pair, obs, life, seg>>
exceptCnt == <<san, batch, cfg, tg, mon, scan, pair, obs, life, seg>>
exceptBatch == <<san, cnt, cfg, tg, mon, scan, pair, obs, life, seg>>
exceptCfg == <<san, cnt, batch, tg, mon, scan, pair, obs, life, seg>>
exceptTg == <<san, cnt, batch, cfg, mon, scan, pair, obs, life, seg>>
exceptMon == <<san, cnt, batch, cfg, tg, scan, pair, obs, life, seg>>
exceptScan == <<san, cnt, batch, cfg, tg, mon, pair, obs, life, seg>>
exceptPair == <<san, cnt, batch, cfg, tg, mon, scan, obs, life, seg>>
exceptObs == <<san, cnt, batch, cfg, tg, mon, scan, pair, life, seg>>
exceptLife == <<san, cnt, batch, cfg, tg, mon, scan, pair, obs, seg>>
exceptSeg == <<san, cnt, batch, cfg, tg, mon, scan, pair, obs, life>>
auxVars == <<th, api, det, extVars>>
vars == <<schedVars, disk, courseVars, auxVars>>

\* ----------------------------------------------------------------- helpers
Min(a, b) == IF a < b THEN a ELSE b
Max(a, b) == IF a > b THEN a ELSE b

Terminal == {"completed", "failed", "skipped"}
Done == {"true", "false", "raised"}
Working == {"request", "stream"}

TaskIds == 1..Len(tasks)

\* DownloadTask.__init__ / VideoDownloadTask defaults
NewTask(p) ==
    [file_path |-> p, status |-> "pending", bytes_downloaded |-> 0,
     total_bytes |-> 0, error_message |-> ""]

\* self.max_workers = max(1, min(max_workers, 10))
PdfClamp(n) == Max(1, Min(n, PDF_MAX_WORKERS))

\* self.max_concurrent = max(1, min(max_concurrent_videos, 4))
VideoClamp(n) == Max(1, Min(n, VIDEO_MAX_CONCURRENT))

max_workers == IF kind = "pdf" THEN PdfClamp(requested) ELSE VideoClamp(requested)

\* os.path.exists(task.file_path)
\* a fetcher that never finds its destination on disk
NeverExists(p) == FALSE

\* os.path.exists(path)
Exists(p) == p \in DOMAIN disk

\* open(path, 'wb'): creates the file or truncates it to zero length
Truncated(p) == [q \in DOMAIN disk \cup {p} |-> IF q = p THEN 0 ELSE disk[q]]

\* f.write(chunk) at the writer's own offset
Written(p, offset) ==
    [q \in DOMAIN disk \cup {p} |->
        IF q = p THEN (IF Exists(p) THEN Max(disk[p], offset + 1) ELSE offset + 1)
        ELSE disk[q]]

\* ThreadPoolExecutor(max_workers): threads that are inside a submitted call
\* ---- the course: get_course_lessons returns the lessons 1..MaxLessons, each
\* with one PDF link; odd lessons carry a subtitle
LessonTitles == 1..MaxLessons
HasSubtitle(l) == l % 2 = 1
PdfPath(l) == <<l, "livro_eletronico_1.pdf">>
SubjectsPath(l) == <<l, "Assuntos_dessa_aula.txt">>
CoursePaths ==
    {PdfPath(l) : l \in LessonTitles}
        \cup {SubjectsPath(l) : l \in {k \in LessonTitles : HasSubtitle(k)}}

EmptyManifest == [l \in {} |-> 0]
NoPath == <<>>
FdIdle ==
    [pc |-> "idle", path |-> NoPath, chunks |-> 0, result |-> FALSE,
     requests |-> 0, existed |-> FALSE, before |-> 0]

Busy == Cardinality({t \in TaskIds : future[t] \in Working})

\* no scheduler has been created
SchedAtRest ==
    /\ tasks = <<>>
    /\ future = <<>>
    /\ recv = <<>>
    /\ completed_tasks = 0
    /\ failed_tasks = 0
    /\ skipped_tasks = 0
    /\ pc = "idle"
    /\ second = FALSE
    /\ run = 1
    /\ execs = <<>>
    /\ fresh = FALSE
    /\ prevOk = FALSE

\* no course download has been started
CourseAtRest ==
    /\ fd = FdIdle
    /\ cpc = "stopped"
    /\ idx = 1
    /\ manifest = EmptyManifest
    /\ manifest_file = [state |-> "absent", data |-> <<>>]
    /\ runs = 0
    /\ loaded = EmptyManifest
    /\ processed = {}
    /\ startedIn = [l \in LessonTitles |-> 0]

\* nothing calls the manifest or the detector directly
AuxAtRest ==
    /\ th = <<>>
    /\ api = [op |-> "none", title |-> 0, before |-> EmptyManifest,
              file |-> [state |-> "absent", data |-> <<>>], saved |-> FALSE,
              calls |-> 0]
    /\ det = [phase |-> "none", name1 |-> <<>>, name2 |-> <<>>,
              meta |-> [exists |-> FALSE, original_title |-> <<>>],
              local |-> 0, remote |-> 0, matched |-> FALSE, raised |-> FALSE,
              reports |-> <<>>]
    /\ san = [phase |-> "none", which |-> "", input |-> <<>>, once |-> <<>>,
              twice |-> <<>>]
    /\ cnt = [phase |-> "none", which |-> "", dirs |-> {},
              file |-> [state |-> "absent", data |-> <<>>], lessons |-> {}]
    /\ batch = [phase |-> "none", run |-> 1, selected |-> <<>>, course |-> 0,
                step |-> "", lessons |-> 0, lesson |-> 0, attempted |-> {},
                done |-> {}, abort |-> "none", raisedIn |-> 0,
                error_notices |-> 0, exit_code |-> 0]
    /\ cfg = [phase |-> "unloaded", op |-> "", TELEGRAM_ENABLED |-> FALSE,
              TELEGRAM_BOT_TOKEN |-> FALSE, TELEGRAM_CHAT_ID |-> FALSE,
              requested |-> 0, max_workers |-> 0, notifier |-> "none",
              last_send_time |-> 0, error |-> "none", requests |-> 0]
    /\ tg = [phase |-> "none", now |-> MIN_NOTIFICATION_INTERVAL, enabled |-> FALSE,
             last_send_time |-> 0, sent |-> <<>>, result |-> FALSE]
    /\ mon = [running |-> FALSE, monitor_thread |-> "none",
              active_tasks |-> [n \in {} |-> 0], shown |-> {}]
    /\ scan = [phase |-> "none", course |-> 0, local |-> 0, page |-> "",
               platform_total |-> 0, reported |-> FALSE, failures |-> 0,
               found |-> 0]
    /\ pair = [phase |-> "none", name |-> <<>>,
               meta |-> [exists |-> FALSE, original_title |-> <<>>],
               catalog |-> <<>>, platform_course |-> 0]
    /\ obs = [phase |-> "none", copy |-> {}, pass |-> 0,
              counts |-> [st \in {} |-> 0], total_bytes |-> 0,
              downloaded_bytes |-> 0, progress_percentage |-> 0]
    /\ life = [class |-> "none", running |-> FALSE, thread |-> "none",
               orphans |-> 0, calls |-> <<>>]
    /\ seg = [phase |-> "none", num_segments |-> 0, total_size |-> 0,
              ranges |-> <<>>, parts |-> <<>>, output |-> "absent",
              existed |-> FALSE, result |-> "none"]

Init ==
    /\ AuxAtRest
    /\ kind \in Kinds
    /\ requested \in RequestedWorkers
    /\ \E pre \in SUBSET Paths : disk = [p \in pre |-> 0]
    /\ SchedAtRest
    /\ CourseAtRest

\* ------------------------------------------------- queueing (either scheduler)
\* add_download_task / add_video_task: append a pending task
AddTask(p) ==
    /\ pc = "idle"
    /\ run = 1
    /\ Len(tasks) < MaxTasks
    /\ tasks' = Append(tasks, NewTask(p))
    /\ future' = Append(future, "new")
    /\ recv' = Append(recv, 0)
    /\ execs' = Append(execs, 0)
    /\ UNCHANGED <<kind, requested, disk, completed_tasks, failed_tasks,
                   skipped_tasks, pc, second, run, fresh, prevOk>>
    /\ UNCHANGED <<courseVars, auxVars>>

\* a call on a manager that has returned before is the second one
Recalled == IF pc = "returned" THEN ~second /\ second' = TRUE ELSE UNCHANGED second

\* download_all / download_all_videos on an empty task list: early return
DownloadAllEmpty ==
    /\ pc \in {"idle", "returned"}
    /\ tasks = <<>>
    /\ Recalled
    /\ pc' = "returned"
    /\ UNCHANGED <<kind, requested, disk, tasks, future, recv, completed_tasks,
                   failed_tasks, skipped_tasks, run, execs, fresh, prevOk>>
    /\ UNCHANGED <<courseVars, auxVars>>

\* executor.submit(self._download_file, task) for task in self.tasks
Submitted == [t \in TaskIds |-> "queued"]

\* download_all / download_all_videos: reset the counters, submit every task
DownloadAllStart ==
    /\ pc \in {"idle", "returned"}
    /\ tasks # <<>>
    /\ Recalled
    /\ completed_tasks' = 0
    /\ failed_tasks' = 0
    /\ skipped_tasks' = 0
    /\ future' = Submitted
    /\ execs' = [t \in TaskIds |-> 0]
    /\ fresh' = \A t \in TaskIds : ~Exists(tasks[t].file_path)
    /\ pc' = "running"
    /\ UNCHANGED <<kind, requested, disk, tasks, recv, run, prevOk>>
    /\ UNCHANGED <<courseVars, auxVars>>

\* ------------------------------------------------------------- the workers
\* _download_file, except clauses: the first clause, `except os.path.exists(...)`,
\* names a bool, so matching any exception against it raises TypeError and the
\* call leaves through the Future with the task untouched
PdfExcept(tk, exc) == tk
PdfExceptFuture == "raised"

\* _download_single_video, except clauses
VideoErrorMessage(exc) ==
    CASE exc = "Timeout" -> "Timeout na conexao"
      [] exc = "ConnectionError" -> "Erro de conexao: ConnectionError"
      [] OTHER -> exc
VideoExcept(tk, exc) ==
    [tk EXCEPT !.status = "failed", !.error_message = VideoErrorMessage(exc)]
VideoExceptFuture == "false"

Raise(t, exc) ==
    /\ tasks' = [tasks EXCEPT ![t] = IF kind = "pdf" THEN PdfExcept(@, exc)
                                     ELSE VideoExcept(@, exc)]
    /\ future' = [future EXCEPT ![t] = IF kind = "pdf" THEN PdfExceptFuture
                                       ELSE VideoExceptFuture]

\* the already-exists branch of either fetcher
PdfSkip(tk) ==
    [tk EXCEPT !.status = "skipped", !.bytes_downloaded = disk[tk.file_path],
               !.total_bytes = disk[tk.file_path]]
VideoSkip(tk) ==
    [tk EXCEPT !.status = "completed", !.total_bytes = disk[tk.file_path],
               !.bytes_downloaded = disk[tk.file_path]]

\* a pool that also picks up again a call that ended in failure
RunnableRetry(t) == future[t] \in {"queued", "false", "raised"}

\* a submitted call is run by one pool thread, once
Runnable(t) == future[t] = "queued"

\* a pool thread takes a queued call and runs it up to the HTTP request
Begin(t) ==
    /\ pc = "running"
    /\ Runnable(t)
    /\ Busy < max_workers
    /\ execs' = [execs EXCEPT ![t] = @ + 1]
    /\ recv' = [recv EXCEPT ![t] = 0]
    /\ \/ /\ Exists(tasks[t].file_path)
          /\ tasks' = [tasks EXCEPT ![t] = IF kind = "pdf" THEN PdfSkip(@)
                                           ELSE VideoSkip(@)]
          /\ future' = [future EXCEPT ![t] = "true"]
       \/ /\ ~Exists(tasks[t].file_path)
          /\ tasks' = [tasks EXCEPT ![t].status = "downloading"]
          /\ future' = [future EXCEPT ![t] = "request"]
       \/ /\ ~Exists(tasks[t].file_path)
          /\ Raise(t, "OSError")
    /\ UNCHANGED <<kind, requested, disk, completed_tasks, failed_tasks,
                   skipped_tasks, pc, second, run, fresh, prevOk>>
    /\ UNCHANGED <<courseVars, auxVars>>

\* requests.get(..., stream=True, timeout=...), raise_for_status, the
\* content-length header (content_length, 0 when the header is absent), then
\* `with open(path, 'wb') as f`
RequestLen(t, content_length) ==
    /\ pc = "running"
    /\ future[t] = "request"
    /\ \/ /\ tasks' = [tasks EXCEPT ![t].total_bytes = content_length]
          /\ disk' = Truncated(tasks[t].file_path)
          /\ future' = [future EXCEPT ![t] = "stream"]
       \/ /\ \E exc \in Exceptions : Raise(t, exc)
          /\ UNCHANGED disk
    /\ UNCHANGED <<kind, requested, recv, completed_tasks, failed_tasks,
                   skipped_tasks, pc, second, run, execs, fresh, prevOk>>
    /\ UNCHANGED <<courseVars, auxVars>>

\* a server whose content-length is the length of the body it sends
Request(t) == RequestLen(t, BodyChunks)

\* bytes_downloaded after one more chunk: the PDF fetcher counts in a local that
\* starts at 0, the video fetcher adds to the task's field
Progressed(t) ==
    IF kind = "pdf" THEN recv[t] + 1 ELSE tasks[t].bytes_downloaded + 1

\* for chunk in response.iter_content(...): f.write(chunk); then status completed
Stream(t) ==
    /\ pc = "running"
    /\ future[t] = "stream"
    /\ \/ /\ recv[t] < BodyChunks
          /\ disk' = Written(tasks[t].file_path, recv[t])
          /\ recv' = [recv EXCEPT ![t] = @ + 1]
          /\ tasks' = [tasks EXCEPT ![t].bytes_downloaded = Progressed(t)]
          /\ UNCHANGED future
       \/ /\ recv[t] < BodyChunks
          /\ \E exc \in {"ConnectionError", "OSError"} : Raise(t, exc)
          /\ UNCHANGED <<disk, recv>>
       \/ /\ recv[t] = BodyChunks
          /\ tasks' = [tasks EXCEPT ![t].status = "completed"]
          /\ future' = [future EXCEPT ![t] = "true"]
          /\ UNCHANGED <<disk, recv>>
    /\ UNCHANGED <<kind, requested, completed_tasks, failed_tasks,
                   skipped_tasks, pc, second, run, execs, fresh, prevOk>>
    /\ UNCHANGED <<courseVars, auxVars>>

\* ------------------------------------------------- the as_completed loop
\* download_all: what one iteration of `for future in as_completed(futures)`
\* adds to each counter
\* a loop that counts every success as completed, whatever the status
PdfCompletedAnyStatus(t) == future[t] = "true"

PdfCompleted(t) == future[t] = "true" /\ tasks[t].status = "completed"
PdfSkipped(t) == future[t] = "true" /\ tasks[t].status = "skipped"
\* a loop whose future.result() is not guarded by `except Exception`
PdfFailedNoExcept(t) == future[t] = "false"

PdfFailed(t) == future[t] \in {"false", "raised"}

\* download_all_videos: the same
VideoCompleted(t) == future[t] = "true"
VideoFailed(t) == future[t] \in {"false", "raised"}

\* The loop only reads futures that are done and writes counters nobody else
\* reads before the return, so its iterations are taken together with the
\* return: every future is done, the executor shuts down, the statistics go out.
Return ==
    /\ pc = "running"
    /\ \A t \in TaskIds : future[t] \in Done
    /\ IF kind = "pdf"
       THEN /\ completed_tasks' = Cardinality({t \in TaskIds : PdfCompleted(t)})
            /\ skipped_tasks' = Cardinality({t \in TaskIds : PdfSkipped(t)})
            /\ failed_tasks' = Cardinality({t \in TaskIds : PdfFailed(t)})
       ELSE /\ completed_tasks' = Cardinality({t \in TaskIds : VideoCompleted(t)})
            /\ failed_tasks' = Cardinality({t \in TaskIds : VideoFailed(t)})
            /\ UNCHANGED skipped_tasks
    /\ pc' = "returned"
    /\ UNCHANGED <<kind, requested, disk, tasks, future, recv, second, run,
                   execs, fresh, prevOk>>
    /\ UNCHANGED <<courseVars, auxVars>>

\* the stats dict of download_all / download_all_videos
Stats ==
    [total |-> Len(tasks), completed |-> completed_tasks, failed |-> failed_tasks,
     skipped |-> skipped_tasks]

\* ------------------------------------------------------- the next course run
\* main.py queues a PDF only when its file is missing and queues every video
Requeued(tk) == kind = "video" \/ ~Exists(tk.file_path)

\* download_lesson_materials / download_playlist_videos of a later run: a new
\* manager over the same remote files
NextRun ==
    /\ pc = "returned"
    /\ ~second
    /\ second' = TRUE
    /\ run' = run + 1
    /\ prevOk' = \A t \in TaskIds : future[t] = "true"
    /\ LET again == SelectSeq(tasks, Requeued)
       IN /\ tasks' = [i \in 1..Len(again) |-> NewTask(again[i].file_path)]
          /\ future' = [i \in 1..Len(again) |-> "new"]
          /\ recv' = [i \in 1..Len(again) |-> 0]
          /\ execs' = [i \in 1..Len(again) |-> 0]
    /\ completed_tasks' = 0
    /\ failed_tasks' = 0
    /\ skipped_tasks' = 0
    /\ pc' = "idle"
    /\ fresh' = FALSE
    /\ UNCHANGED <<kind, requested, disk>>
    /\ UNCHANGED <<courseVars, auxVars>>

WorkerStep == \E t \in TaskIds : Begin(t) \/ Request(t) \/ Stream(t)

Next ==
    \/ \E p \in Paths : AddTask(p)
    \/ DownloadAllEmpty
    \/ DownloadAllStart
    \/ \E t \in TaskIds : Begin(t)
    \/ \E t \in TaskIds : Request(t)
    \/ \E t \in TaskIds : Stream(t)
    \/ Return
    \/ NextRun

Spec == Init /\ [][Next]_vars

\* main.py creates a manager per lesson and calls download_all on it once
NextOnce ==
    \/ \E p \in Paths : AddTask(p)
    \/ pc = "idle" /\ DownloadAllEmpty
    \/ pc = "idle" /\ DownloadAllStart
    \/ \E t \in TaskIds : Begin(t)
    \/ \E t \in TaskIds : Request(t)
    \/ \E t \in TaskIds : Stream(t)
    \/ Return
    \/ NextRun

\* the pool threads and the calling thread are scheduled, and every fetch step
\* returns or raises
SpecLive == Init /\ [][NextOnce]_vars /\ WF_vars(WorkerStep \/ Return)

\* ======================================================== FileDownloader
\* FileDownloader.download(url, file_path) entered
Invoked(p) ==
    [pc |-> "get", path |-> p, chunks |-> 0, result |-> FALSE, requests |-> 0,
     existed |-> Exists(p), before |-> IF Exists(p) THEN disk[p] ELSE 0]

\* the `except Exception` of download: log and return False
FdFailed(f) == [f EXCEPT !.pc = "done", !.result = FALSE]

\* self.session.get(url, stream=True, ...) and response.raise_for_status()
FdGet ==
    /\ fd.pc = "get"
    /\ \/ fd' = [fd EXCEPT !.pc = "open", !.requests = @ + 1]
       \/ fd' = FdFailed([fd EXCEPT !.requests = @ + 1])
    /\ UNCHANGED <<schedVars, auxVars, disk, cpc, idx, manifest, manifest_file, runs,
                   loaded, processed, startedIn>>

\* Path(file_path).parent.mkdir(...) and open(file_path, 'wb')
FdOpen ==
    /\ fd.pc = "open"
    /\ \/ /\ disk' = Truncated(fd.path)
          /\ fd' = [fd EXCEPT !.pc = "write"]
       \/ /\ fd' = FdFailed(fd)
          /\ UNCHANGED disk
    /\ UNCHANGED <<schedVars, auxVars, cpc, idx, manifest, manifest_file, runs, loaded,
                   processed, startedIn>>

\* for chunk in response.iter_content(...): f.write(chunk); return True
FdWrite ==
    /\ fd.pc = "write"
    /\ \/ /\ fd.chunks < BodyChunks
          /\ disk' = Written(fd.path, fd.chunks)
          /\ fd' = [fd EXCEPT !.chunks = @ + 1]
       \/ /\ fd.chunks < BodyChunks
          /\ fd' = FdFailed(fd)
          /\ UNCHANGED disk
       \/ /\ fd.chunks = BodyChunks
          /\ fd' = [fd EXCEPT !.pc = "done", !.result = TRUE]
          /\ UNCHANGED disk
    /\ UNCHANGED <<schedVars, auxVars, cpc, idx, manifest, manifest_file, runs, loaded,
                   processed, startedIn>>

\* a caller hands download any destination
FetcherInvoke(p) ==
    /\ cpc = "stopped"
    /\ fd.pc \in {"idle", "done"}
    /\ fd' = Invoked(p)
    /\ UNCHANGED <<schedVars, auxVars, disk, cpc, idx, manifest, manifest_file, runs,
                   loaded, processed, startedIn>>

\* =================================================== FileManifestManager
\* the entry start_lesson creates; completed stands for the completed_at key
NewLesson(now) ==
    [timestamp |-> now, total_files |-> 0, files |-> <<>>, completed |-> FALSE]

\* a dump that leaves out the lessons without files
RECURSIVE EncodeNonEmpty(_)
EncodeNonEmpty(m) ==
    IF DOMAIN m = {} THEN <<>>
    ELSE LET k == CHOOSE x \in DOMAIN m : \A y \in DOMAIN m : x <= y
             rest == EncodeNonEmpty([j \in DOMAIN m \ {k} |-> m[j]])
         IN IF m[k].files = <<>> THEN rest
            ELSE <<[title |-> k, entry |-> m[k]]>> \o rest

\* json.dump(self.manifest, f, ...): the dict as a document, one member per
\* lesson title
RECURSIVE Encode(_)
Encode(m) ==
    IF DOMAIN m = {} THEN <<>>
    ELSE LET k == CHOOSE x \in DOMAIN m : \A y \in DOMAIN m : x <= y
         IN <<[title |-> k, entry |-> m[k]]>>
                \o Encode([j \in DOMAIN m \ {k} |-> m[j]])

\* json.load(f): the document as a dict; of members with one title the last
\* one is kept
Decode(doc) ==
    [l \in {doc[i].title : i \in DOMAIN doc} |->
        doc[CHOOSE i \in DOMAIN doc :
                /\ doc[i].title = l
                /\ \A j \in DOMAIN doc : doc[j].title = l => j <= i].entry]

\* a loader that takes whatever members an undecodable file holds
LoadLenient(file) ==
    IF file.state = "absent" THEN EmptyManifest ELSE Decode(file.data)

\* _load_manifest: a missing or undecodable file gives {}
LoadFrom(file) == IF file.state = "ok" THEN Decode(file.data) ELSE EmptyManifest
load_manifest == LoadFrom(manifest_file)

\* a start_lesson without its `if lesson_title not in self.manifest`
start_lesson_always(m, l, now) ==
    [k \in DOMAIN m \cup {l} |-> IF k = l THEN NewLesson(now) ELSE m[k]]

start_lesson(m, l, now) ==
    IF l \in DOMAIN m THEN m
    ELSE [k \in DOMAIN m \cup {l} |-> IF k = l THEN NewLesson(now) ELSE m[k]]

FileEntry(name, size, status) ==
    [name |-> name, size_bytes |-> size, status |-> status]

\* an add_file that puts the new record in front
add_file_front(m, l, name, size, status, now) ==
    LET started == IF l \in DOMAIN m THEN m ELSE start_lesson(m, l, now)
        files == <<FileEntry(name, size, status)>> \o started[l].files
    IN [started EXCEPT ![l].files = files, ![l].total_files = Len(files)]

add_file(m, l, name, size, status, now) ==
    LET started == IF l \in DOMAIN m THEN m ELSE start_lesson(m, l, now)
        files == Append(started[l].files, FileEntry(name, size, status))
    IN [started EXCEPT ![l].files = files, ![l].total_files = Len(files)]

\* get_course_statistics
RECURSIVE SumSizes(_)
SumSizes(files) ==
    IF files = <<>> THEN 0 ELSE Head(files).size_bytes + SumSizes(Tail(files))

RECURSIVE TotalFiles(_, _)
TotalFiles(m, keys) ==
    IF keys = {} THEN 0
    ELSE LET k == CHOOSE x \in keys : TRUE
         IN m[k].total_files + TotalFiles(m, keys \ {k})

RECURSIVE TotalSize(_, _)
TotalSize(m, keys) ==
    IF keys = {} THEN 0
    ELSE LET k == CHOOSE x \in keys : TRUE
         IN SumSizes(m[k].files) + TotalSize(m, keys \ {k})

get_course_statistics(m) ==
    [total_lessons |-> Cardinality(DOMAIN m),
     total_files |-> TotalFiles(m, DOMAIN m),
     total_size_bytes |-> TotalSize(m, DOMAIN m)]

\* finish_lesson, the in-memory part
finish_lesson(m, l) ==
    IF l \in DOMAIN m THEN [m EXCEPT ![l].completed = TRUE] ELSE m

\* is_lesson_downloaded, if it asked for a recorded file
is_lesson_downloaded_with_files(l) ==
    l \in DOMAIN manifest /\ manifest[l].files # <<>>

is_lesson_downloaded(l) == l \in DOMAIN manifest

\* ======================================================= CourseDownloader
\* download_course up to the lesson loop: the manifest is loaded, the lesson
\* list fetched; an empty list returns False
DownloadCourse ==
    /\ cpc = "stopped"
    /\ fd.pc = "idle"
    /\ runs < MaxRuns
    /\ runs' = runs + 1
    /\ loaded' = load_manifest
    /\ processed' = {}
    /\ idx' = 1
    /\ \/ cpc' = "lesson" /\ manifest' = load_manifest
       \/ cpc' = "stopped" /\ manifest' = EmptyManifest
    /\ UNCHANGED <<schedVars, auxVars, disk, fd, manifest_file, startedIn>>

\* loop head: `if manifest.is_lesson_downloaded(lesson_title): continue`
LessonSkip ==
    /\ cpc = "lesson"
    /\ idx <= MaxLessons
    /\ is_lesson_downloaded(idx)
    /\ idx' = idx + 1
    /\ UNCHANGED <<schedVars, auxVars, disk, fd, cpc, manifest, manifest_file, runs,
                   loaded, processed, startedIn>>

\* manifest.start_lesson(lesson_title)
LessonStart ==
    /\ cpc = "lesson"
    /\ idx <= MaxLessons
    /\ ~is_lesson_downloaded(idx)
    /\ manifest' = start_lesson(manifest, idx, runs)
    /\ startedIn' = [startedIn EXCEPT ![idx] = IF @ = 0 THEN runs ELSE @]
    /\ cpc' = "materials"
    /\ UNCHANGED <<schedVars, auxVars, disk, fd, idx, manifest_file, runs, loaded,
                   processed>>

\* download_lesson_materials up to _download_pdfs: driver.get may raise, which
\* nothing in download_course catches; then _save_lesson_subjects
Materials ==
    /\ cpc = "materials"
    /\ processed' = processed \cup {idx}
    /\ \/ /\ cpc' = "stopped"
          /\ manifest' = EmptyManifest
          /\ UNCHANGED disk
       \/ /\ HasSubtitle(idx) /\ ~Exists(SubjectsPath(idx))
          /\ disk' = Written(SubjectsPath(idx), 0)
          /\ manifest' = add_file(manifest, idx, "Assuntos_dessa_aula.txt", 1,
                                  "success", runs)
          /\ cpc' = "pdfs"
       \/ /\ HasSubtitle(idx) /\ ~Exists(SubjectsPath(idx))
          /\ cpc' = "pdfs"
          /\ UNCHANGED <<disk, manifest>>
       \/ /\ ~HasSubtitle(idx) \/ Exists(SubjectsPath(idx))
          /\ cpc' = "pdfs"
          /\ UNCHANGED <<disk, manifest>>
    /\ UNCHANGED <<schedVars, auxVars, fd, idx, manifest_file, runs, loaded, startedIn>>

\* _download_pdfs: no link found (or find_elements raised), the PDF exists, or
\* file_downloader.download is called
DownloadPdfs ==
    /\ cpc = "pdfs"
    /\ \/ cpc' = "finish" /\ UNCHANGED fd
       \/ Exists(PdfPath(idx)) /\ cpc' = "finish" /\ UNCHANGED fd
       \/ ~Exists(PdfPath(idx)) /\ cpc' = "fetching" /\ fd' = Invoked(PdfPath(idx))
    /\ UNCHANGED <<schedVars, auxVars, disk, idx, manifest, manifest_file, runs, loaded,
                   processed, startedIn>>

\* _download_pdfs after download returned: `if success: manifest.add_file(...)`
PdfFetched ==
    /\ cpc = "fetching"
    /\ fd.pc = "done"
    /\ manifest' = IF fd.result
                   THEN add_file(manifest, idx, "livro_eletronico_1.pdf",
                                 disk[fd.path], "success", runs)
                   ELSE manifest
    /\ fd' = FdIdle
    /\ cpc' = "finish"
    /\ UNCHANGED <<schedVars, auxVars, disk, idx, manifest_file, runs, loaded, processed,
                   startedIn>>

\* `if success: manifest.finish_lesson(...)`: completed_at is set and
\* _save_manifest opens the file with mode 'w'; a failing open is logged only
FinishLesson ==
    /\ cpc = "finish"
    /\ manifest' = finish_lesson(manifest, idx)
    /\ \/ /\ manifest_file' = [state |-> "corrupt", data |-> <<>>]
          /\ cpc' = "saving"
          /\ UNCHANGED idx
       \/ /\ cpc' = "lesson"
          /\ idx' = idx + 1
          /\ UNCHANGED manifest_file
    /\ UNCHANGED <<schedVars, auxVars, disk, fd, runs, loaded, processed, startedIn>>

\* _save_manifest: json.dump writes the dict; a write that fails part-way
\* leaves what was written so far and is logged only
SaveManifest ==
    /\ cpc = "saving"
    /\ \/ manifest_file' = [state |-> "ok", data |-> Encode(manifest)]
       \/ \E k \in 0..(Len(Encode(manifest)) - 1) :
              manifest_file' =
                  [state |-> "corrupt", data |-> SubSeq(Encode(manifest), 1, k)]
    /\ cpc' = "lesson"
    /\ idx' = idx + 1
    /\ UNCHANGED <<schedVars, auxVars, disk, fd, manifest, runs, loaded, processed,
                   startedIn>>

\* the loop is over: return True
CourseDone ==
    /\ cpc = "lesson"
    /\ idx > MaxLessons
    /\ cpc' = "stopped"
    /\ manifest' = EmptyManifest
    /\ UNCHANGED <<schedVars, auxVars, disk, fd, idx, manifest_file, runs, loaded,
                   processed, startedIn>>

\* the process dies at any point of a run; what is in memory is gone
Crash ==
    /\ cpc # "stopped"
    /\ cpc' = "stopped"
    /\ manifest' = EmptyManifest
    /\ fd' = FdIdle
    /\ UNCHANGED <<schedVars, auxVars, disk, idx, manifest_file, runs, loaded, processed,
                   startedIn>>

InitCourse ==
    /\ AuxAtRest
    /\ kind = "pdf"
    /\ requested = 0
    /\ \E pre \in SUBSET CoursePaths : disk = [p \in pre |-> 0]
    /\ SchedAtRest
    /\ CourseAtRest

\* a manager or a detector used on its own, in a course directory without files
InitManager ==
    /\ AuxAtRest
    /\ kind = "pdf"
    /\ requested = 0
    /\ disk = [p \in {} |-> 0]
    /\ SchedAtRest
    /\ CourseAtRest

NextCourse ==
    \/ DownloadCourse
    \/ LessonSkip
    \/ LessonStart
    \/ Materials
    \/ DownloadPdfs
    \/ FdGet
    \/ FdOpen
    \/ FdWrite
    \/ PdfFetched
    \/ FinishLesson
    \/ SaveManifest
    \/ CourseDone
    \/ Crash

SpecCourse == InitCourse /\ [][NextCourse]_vars

NextFetcher ==
    \/ \E p \in CoursePaths : FetcherInvoke(p)
    \/ FdGet
    \/ FdOpen
    \/ FdWrite

SpecFetcher == InitCourse /\ [][NextFetcher]_vars

\* ============================ FileManifestManager called from outside
\* what callers pass to add_file: name, size_bytes, status
FileArgs == {<<"a.pdf", 1, "success">>, <<"b.mp4", 2, "error">>}

Called(op, l) ==
    [op |-> op, title |-> l, before |-> manifest, file |-> manifest_file,
     saved |-> FALSE, calls |-> api.calls + 1]

ApiReady == cpc = "stopped" /\ th = <<>> /\ api.calls < MaxApiCalls

\* FileManifestManager(course_path): __init__ loads the file
ApiConstruct ==
    /\ ApiReady
    /\ manifest' = load_manifest
    /\ api' = [Called("construct", 0) EXCEPT !.saved = api.saved]
    /\ UNCHANGED <<schedVars, disk, fd, cpc, idx, manifest_file, runs, loaded,
                   processed, startedIn, th, det, extVars>>

ApiStartLesson(l) ==
    /\ ApiReady
    /\ manifest' = start_lesson(manifest, l, api.calls + 1)
    /\ api' = Called("start_lesson", l)
    /\ UNCHANGED <<schedVars, disk, fd, cpc, idx, manifest_file, runs, loaded,
                   processed, startedIn, th, det, extVars>>

ApiAddFile(l, args) ==
    /\ ApiReady
    /\ manifest' = add_file(manifest, l, args[1], args[2], args[3], api.calls + 1)
    /\ api' = Called("add_file", l)
    /\ UNCHANGED <<schedVars, disk, fd, cpc, idx, manifest_file, runs, loaded,
                   processed, startedIn, th, det, extVars>>

\* finish_lesson: for a title in the manifest, completed_at is set and
\* _save_manifest opens the file with mode 'w'; a failing open is logged only
ApiFinishLesson(l) ==
    /\ ApiReady
    /\ manifest' = finish_lesson(manifest, l)
    /\ api' = Called("finish_lesson", l)
    /\ \/ /\ l \in DOMAIN manifest
          /\ manifest_file' = [state |-> "corrupt", data |-> <<>>]
          /\ cpc' = "api_saving"
       \/ /\ l \in DOMAIN manifest
          /\ UNCHANGED <<manifest_file, cpc>>
       \/ /\ l \notin DOMAIN manifest
          /\ UNCHANGED <<manifest_file, cpc>>
    /\ UNCHANGED <<schedVars, disk, fd, idx, runs, loaded, processed, startedIn,
                   th, det, extVars>>

\* _save_manifest: json.dump writes the dict; a write that fails part-way
\* leaves what was written so far and is logged only
ApiSaveWrite ==
    /\ cpc = "api_saving"
    /\ \/ /\ manifest_file' = [state |-> "ok", data |-> Encode(manifest)]
          /\ api' = [api EXCEPT !.saved = TRUE]
       \/ /\ \E k \in 0..(Len(Encode(manifest)) - 1) :
                 manifest_file' =
                     [state |-> "corrupt", data |-> SubSeq(Encode(manifest), 1, k)]
          /\ UNCHANGED api
    /\ cpc' = "stopped"
    /\ UNCHANGED <<schedVars, disk, fd, idx, manifest, runs, loaded, processed,
                   startedIn, th, det, extVars>>

NextManifest ==
    \/ ApiConstruct
    \/ \E l \in LessonTitles : ApiStartLesson(l)
    \/ \E l \in LessonTitles, args \in FileArgs : ApiAddFile(l, args)
    \/ \E l \in LessonTitles : ApiFinishLesson(l)
    \/ ApiSaveWrite

SpecManifest == InitManager /\ [][NextManifest]_vars

\* =============================== add_file called from several threads
\* Each thread runs add_file as the interpreter does, one step at a time:
\* the membership test of add_file, the one of start_lesson, the assignment
\* of the new entry, the append, the len() and the store of total_files.
Threads == DOMAIN th

\* a worker calls manifest.add_file(lesson_title = l, size_bytes = its number)
ThreadCall(l) ==
    /\ cpc = "stopped"
    /\ Len(th) < MaxThreads
    /\ th' = Append(th, [pc |-> "check", title |-> l, n |-> 0,
                         entry |-> FileEntry("video.mp4", Len(th) + 1, "success")])
    /\ UNCHANGED <<schedVars, disk, courseVars, api, det, extVars>>

\* add_file: if lesson_title not in self.manifest
AddFileCheck(t) ==
    /\ th[t].pc = "check"
    /\ th' = [th EXCEPT ![t].pc = IF th[t].title \in DOMAIN manifest
                                   THEN "append" ELSE "start_check"]
    /\ UNCHANGED <<schedVars, disk, courseVars, api, det, extVars>>

\* start_lesson: if lesson_title not in self.manifest
StartLessonCheck(t) ==
    /\ th[t].pc = "start_check"
    /\ th' = [th EXCEPT ![t].pc = IF th[t].title \in DOMAIN manifest
                                   THEN "append" ELSE "start_assign"]
    /\ UNCHANGED <<schedVars, disk, courseVars, api, det, extVars>>

\* start_lesson: self.manifest[lesson_title] = {...}
StartLessonAssign(t) ==
    /\ th[t].pc = "start_assign"
    /\ manifest' = [k \in DOMAIN manifest \cup {th[t].title} |->
                        IF k = th[t].title THEN NewLesson(api.calls + 1)
                        ELSE manifest[k]]
    /\ th' = [th EXCEPT ![t].pc = "append"]
    /\ UNCHANGED <<schedVars, disk, fd, cpc, idx, manifest_file, runs, loaded,
                   processed, startedIn, api, det, extVars>>

\* add_file: self.manifest[lesson_title]["files"].append(file_entry)
AddFileAppend(t) ==
    /\ th[t].pc = "append"
    /\ manifest' = [manifest EXCEPT ![th[t].title].files = Append(@, th[t].entry)]
    /\ th' = [th EXCEPT ![t].pc = "len"]
    /\ UNCHANGED <<schedVars, disk, fd, cpc, idx, manifest_file, runs, loaded,
                   processed, startedIn, api, det, extVars>>

\* add_file: len(self.manifest[lesson_title]["files"])
AddFileLen(t) ==
    /\ th[t].pc = "len"
    /\ th' = [th EXCEPT ![t].pc = "store", ![t].n = Len(manifest[th[t].title].files)]
    /\ UNCHANGED <<schedVars, disk, courseVars, api, det, extVars>>

\* add_file: self.manifest[lesson_title]["total_files"] = <that length>
AddFileStore(t) ==
    /\ th[t].pc = "store"
    /\ manifest' = [manifest EXCEPT ![th[t].title].total_files = th[t].n]
    /\ th' = [th EXCEPT ![t].pc = "done"]
    /\ UNCHANGED <<schedVars, disk, fd, cpc, idx, manifest_file, runs, loaded,
                   processed, startedIn, api, det, extVars>>

NextThreads ==
    \/ \E l \in LessonTitles : ApiStartLesson(l)
    \/ \E l \in LessonTitles : ThreadCall(l)
    \/ \E t \in Threads :
          \/ AddFileCheck(t)
          \/ StartLessonCheck(t)
          \/ StartLessonAssign(t)
          \/ AddFileAppend(t)
          \/ AddFileLen(t)
          \/ AddFileStore(t)

SpecThreads == InitManager /\ [][NextThreads]_vars

\* ================================================ incomplete-course scan
\* Titles are sequences of one-character strings.
Alphabet == {"a", "B", " ", "_"}
Titles == UNION {[1..n -> Alphabet] : n \in 0..MaxTitleLen}

ExampleLocal ==
    <<"C","u","r","s","o","_","d","e","_","P","y","t","h","o","n","_",
      "B","a","s","i","c","o">>
ExampleRemote ==
    <<"C","u","r","s","o"," ","d","e"," ","P","y","t","h","o","n",":"," ",
      "B","á","s","i","c","o","!">>
CourseTitles == {ExampleLocal, ExampleRemote, <<"a">>, <<"A", " ">>}

NoMetadata == [exists |-> FALSE, original_title |-> <<>>]
Metadata(title) == [exists |-> TRUE, original_title |-> title]

\* the character class a-z0-9 and \s of the pattern
LowerAlnum ==
    {"a","b","c","d","e","f","g","h","i","j","k","l","m","n","o","p","q","r",
     "s","t","u","v","w","x","y","z","0","1","2","3","4","5","6","7","8","9"}
Whitespace == {" "}

\* str.lower, on the characters used here
LowerChar(c) ==
    CASE c = "A" -> "a" [] c = "B" -> "b" [] c = "C" -> "c" [] c = "P" -> "p"
      [] c = "Á" -> "á" [] OTHER -> c
lower(name) == [i \in DOMAIN name |-> LowerChar(name[i])]

\* str.strip
RECURSIVE lstrip(_)
lstrip(name) ==
    IF name # <<>> /\ Head(name) \in Whitespace THEN lstrip(Tail(name)) ELSE name
RECURSIVE rstrip(_)
rstrip(name) ==
    IF name # <<>> /\ name[Len(name)] \in Whitespace
    THEN rstrip(SubSeq(name, 1, Len(name) - 1)) ELSE name
strip(name) == rstrip(lstrip(name))

\* re.sub(r'[^a-z0-9\s]', '', name): whitespace is kept
KeptByPattern(c) == c \in LowerAlnum \cup Whitespace
normalized(name) == SelectSeq(name, KeptByPattern)

\* a in b, for strings
Contains(a, b) ==
    \E i \in 1..(Len(b) - Len(a) + 1) : SubSeq(b, i, i + Len(a) - 1) = a

_courses_match(course_name_1, course_name_2, meta) ==
    LET name1_lower == strip(lower(course_name_1))
        name2_lower == strip(lower(course_name_2))
    IN \/ meta.exists /\ strip(lower(meta.original_title)) = name2_lower
       \/ name1_lower = name2_lower
       \/ normalized(name1_lower) = normalized(name2_lower)
       \/ Contains(name1_lower, name2_lower)
       \/ Contains(name2_lower, name1_lower)

\* a progress that cuts the digits after the first decimal
progress_truncated(local_total, platform_total) ==
    (1000 * local_total) \div platform_total

\* f"{(local_total / platform_total) * 100:.1f}", in tenths of a percent:
\* the nearest tenth, a tie going to the even one
progress(local_total, platform_total) ==
    LET q == (1000 * local_total) \div platform_total
        rem == (1000 * local_total) % platform_total
    IN IF 2 * rem > platform_total THEN q + 1
       ELSE IF 2 * rem = platform_total THEN q + (q % 2)
       ELSE q

\* if platform_total > local_total
IsIncomplete(local_total, platform_total) == platform_total > local_total

DetAtRest == det.phase = "none" /\ cpc = "stopped" /\ th = <<>>

\* detector._courses_match(name1, name2, metadata_path) called on its own
CoursesMatchCall(name1, name2, meta) ==
    /\ DetAtRest
    /\ det' = [det EXCEPT !.phase = "matched", !.name1 = name1, !.name2 = name2,
                          !.meta = meta,
                          !.matched = _courses_match(name1, name2, meta)]
    /\ UNCHANGED <<schedVars, disk, courseVars, th, api, extVars>>

\* find_incomplete_courses for one downloaded course with local_total lessons
\* and one available course whose page lists platform_total lessons (0 when
\* the page cannot be read)
FindIncompleteCourses(local_course_name, meta, title, local_total, platform_total) ==
    LET original_course_name ==
            IF meta.exists THEN meta.original_title ELSE local_course_name
        matched == _courses_match(original_course_name, title, meta)
        incomplete == matched /\ IsIncomplete(local_total, platform_total)
    IN /\ DetAtRest
       /\ det' = [phase |-> "reported", name1 |-> original_course_name,
                  name2 |-> title, meta |-> meta, local |-> local_total,
                  remote |-> platform_total, matched |-> matched,
                  raised |-> incomplete /\ platform_total = 0,
                  reports |->
                      IF incomplete /\ platform_total # 0
                      THEN <<[platform_total |-> platform_total,
                              local_total |-> local_total,
                              missing |-> platform_total - local_total,
                              progress |-> progress(local_total, platform_total)]>>
                      ELSE <<>>]
       /\ UNCHANGED <<schedVars, disk, courseVars, th, api, extVars>>

\* the caller goes on with the next course
DetReturn ==
    /\ det.phase \in {"matched", "reported"}
    /\ det' = [phase |-> "none", name1 |-> <<>>, name2 |-> <<>>, meta |-> NoMetadata,
               local |-> 0, remote |-> 0, matched |-> FALSE, raised |-> FALSE,
               reports |-> <<>>]
    /\ UNCHANGED <<schedVars, disk, courseVars, th, api, extVars>>

NextDetector ==
    \/ /\ DetAtRest
       /\ \E name1, name2 \in Titles \cup {ExampleLocal, ExampleRemote} :
             \E meta \in {NoMetadata, Metadata(name1), Metadata(name2)} :
                 CoursesMatchCall(name1, name2, meta)
    \/ /\ DetAtRest
       /\ \E local_course_name, title \in CourseTitles :
             \E meta \in {NoMetadata} \cup {Metadata(t) : t \in CourseTitles} :
                 \E local_total \in 0..MaxLocal, platform_total \in 0..MaxRemote :
                     FindIncompleteCourses(local_course_name, meta, title,
                                           local_total, platform_total)
    \/ DetReturn

SpecDetector == InitManager /\ [][NextDetector]_vars

\* ================================================= run_downloader (main.py)
\* Each lesson page has a PDF link, shown once or several times with the same
\* version text, and at most one video.
MainPdfPath(l) == <<l, "Livro_Eletronico_original.pdf">>
MainVideoPath(l) == <<l, "Video_720p.mp4">>
MainPaths ==
    UNION {{MainPdfPath(l), MainVideoPath(l), SubjectsPath(l)} : l \in LessonTitles}

\* create_download_manager / ParallelVideoDownloader(...): a new scheduler
NewManager(k, queued) ==
    /\ kind' = k
    /\ tasks' = queued
    /\ future' = [i \in DOMAIN queued |-> "new"]
    /\ recv' = [i \in DOMAIN queued |-> 0]
    /\ execs' = [i \in DOMAIN queued |-> 0]
    /\ completed_tasks' = 0
    /\ failed_tasks' = 0
    /\ skipped_tasks' = 0
    /\ pc' = "idle"
    /\ second' = FALSE
    /\ fresh' = FALSE
    /\ UNCHANGED <<requested, run, prevOk>>

\* the loop `for j, lesson_info in enumerate(lessons)` moves on
LessonDone ==
    /\ cpc' = "main_lesson"
    /\ idx' = idx + 1
    /\ processed' = processed \cup {idx}

\* run_downloader: FileManifestManager(course_download_path, logger), then the
\* lesson loop
MainRun ==
    /\ cpc = "stopped"
    /\ runs = 0
    /\ manifest' = load_manifest
    /\ loaded' = load_manifest
    /\ runs' = runs + 1
    /\ idx' = 1
    /\ processed' = {}
    /\ cpc' = "main_lesson"
    /\ UNCHANGED <<schedVars, auxVars, disk, fd, manifest_file, startedIn>>

\* download_lesson_materials: start_lesson, then navigate_to_lesson; a failed
\* navigation returns
MainLessonStart ==
    /\ cpc = "main_lesson"
    /\ idx <= MaxLessons
    /\ manifest' = start_lesson(manifest, idx, runs)
    /\ startedIn' = [startedIn EXCEPT ![idx] = IF @ = 0 THEN runs ELSE @]
    /\ \/ LessonDone
       \/ cpc' = "main_collect" /\ UNCHANGED <<idx, processed>>
    /\ UNCHANGED <<schedVars, auxVars, disk, fd, manifest_file, runs, loaded>>

\* save_lesson_subjects, then the PDF links: a task per link whose file is
\* not on disk; with tasks the manager's download_all is called next
MainCollect ==
    /\ cpc = "main_collect"
    /\ IF HasSubtitle(idx) /\ ~Exists(SubjectsPath(idx))
       THEN /\ disk' = Written(SubjectsPath(idx), 0)
            /\ manifest' = add_file(manifest, idx, "Assuntos_dessa_aula.txt", 1,
                                    "success", runs)
       ELSE UNCHANGED <<disk, manifest>>
    /\ \E links \in 1..MaxTasks :
          LET queued == IF Exists(MainPdfPath(idx)) THEN <<>>
                        ELSE [i \in 1..links |-> NewTask(MainPdfPath(idx))]
          IN /\ NewManager("pdf", queued)
             /\ cpc' = IF queued = <<>> THEN "main_videos" ELSE "main_pdfs"
    /\ UNCHANGED <<auxVars, fd, idx, manifest_file, runs, loaded, processed,
                   startedIn>>

\* for task in download_manager.tasks: if task.status != "pending":
\*     manifest_manager.add_file(..., status=task.status)
RECURSIVE RecordPdfTasks(_, _, _)
RecordPdfTasks(m, ts, now) ==
    IF ts = <<>> THEN m
    ELSE LET tk == Head(ts)
             recorded == IF tk.status # "pending"
                         THEN add_file(m, tk.file_path[1], tk.file_path[2],
                                       tk.total_bytes, tk.status, now)
                         ELSE m
         IN RecordPdfTasks(recorded, Tail(ts), now)

\* for task in video_downloader.tasks: manifest_manager.add_file(...,
\*     status="success" if task.status == "completed" else task.status)
RECURSIVE RecordVideoTasks(_, _, _)
RecordVideoTasks(m, ts, now) ==
    IF ts = <<>> THEN m
    ELSE LET tk == Head(ts)
             recorded == add_file(m, tk.file_path[1], tk.file_path[2], tk.total_bytes,
                                  IF tk.status = "completed" THEN "success"
                                  ELSE tk.status, now)
         IN RecordVideoTasks(recorded, Tail(ts), now)

\* a driver that records the tasks while download_all is still running
MainPdfRecordEarly ==
    /\ cpc = "main_pdfs"
    /\ pc \in {"running", "returned"}
    /\ manifest' = RecordPdfTasks(manifest, tasks, runs)
    /\ cpc' = "main_videos"
    /\ UNCHANGED <<schedVars, auxVars, disk, fd, idx, manifest_file, runs, loaded,
                   processed, startedIn>>

\* download_lesson_materials after download_all returned
MainPdfRecord ==
    /\ cpc = "main_pdfs"
    /\ pc = "returned"
    /\ manifest' = RecordPdfTasks(manifest, tasks, runs)
    /\ cpc' = "main_videos"
    /\ UNCHANGED <<schedVars, auxVars, disk, fd, idx, manifest_file, runs, loaded,
                   processed, startedIn>>

\* get_playlist_videos and download_playlist_videos up to download_all_videos:
\* without a video, or without its URL, the lesson is over
MainVideos ==
    /\ cpc = "main_videos"
    /\ \/ /\ LessonDone
          /\ UNCHANGED schedVars
       \/ /\ NewManager("video", <<NewTask(MainVideoPath(idx))>>)
          /\ cpc' = "main_video_tasks"
          /\ UNCHANGED <<idx, processed>>
    /\ UNCHANGED <<auxVars, disk, fd, manifest, manifest_file, runs, loaded,
                   startedIn>>

\* download_playlist_videos after download_all_videos returned
MainVideoRecord ==
    /\ cpc = "main_video_tasks"
    /\ pc = "returned"
    /\ manifest' = RecordVideoTasks(manifest, tasks, runs)
    /\ LessonDone
    /\ UNCHANGED <<schedVars, auxVars, disk, fd, manifest_file, runs, loaded,
                   startedIn>>

\* after the last lesson: get_course_statistics is printed
MainCourseEnd ==
    /\ cpc = "main_lesson"
    /\ idx > MaxLessons
    /\ cpc' = "main_done"
    /\ UNCHANGED <<schedVars, auxVars, disk, fd, idx, manifest, manifest_file, runs,
                   loaded, processed, startedIn>>

MainDownloading == cpc \in {"main_pdfs", "main_video_tasks"}

InitMain ==
    /\ AuxAtRest
    /\ kind = "pdf"
    /\ requested = 2
    /\ \E pre \in SUBSET MainPaths : disk = [p \in pre |-> 0]
    /\ SchedAtRest
    /\ CourseAtRest

NextMain ==
    \/ MainRun
    \/ MainLessonStart
    \/ MainCollect
    \/ MainDownloading /\ pc = "idle" /\ DownloadAllStart
    \/ MainDownloading /\ \E t \in TaskIds : Begin(t)
    \/ MainDownloading /\ \E t \in TaskIds : Request(t)
    \/ MainDownloading /\ \E t \in TaskIds : Stream(t)
    \/ MainDownloading /\ Return
    \/ MainPdfRecord
    \/ MainVideos
    \/ MainVideoRecord
    \/ MainCourseEnd

SpecMain == InitMain /\ [][NextMain]_vars

\* download_lesson_materials for the first lesson of the loop alone, with the
\* files of that lesson on disk or not
LessonPaths(l) == {MainPdfPath(l), MainVideoPath(l), SubjectsPath(l)}

InitFirstLesson == InitMain /\ DOMAIN disk \subseteq LessonPaths(1)

NextFirstLesson ==
    \/ MainRun
    \/ processed = {} /\ MainLessonStart
    \/ MainCollect
    \/ MainDownloading /\ pc = "idle" /\ DownloadAllStart
    \/ MainDownloading /\ \E t \in TaskIds : Begin(t)
    \/ MainDownloading /\ \E t \in TaskIds : Request(t)
    \/ MainDownloading /\ \E t \in TaskIds : Stream(t)
    \/ MainDownloading /\ Return
    \/ MainPdfRecord
    \/ MainVideos
    \/ MainVideoRecord

SpecFirstLesson == InitFirstLesson /\ [][NextFirstLesson]_vars

\* ===================================================== sanitize_filename
\* File names are sequences of one-character strings. MaxLength stands for
\* the max_length argument (200 by default); it is not below the length of
\* the fallback name.
NameAlphabet == {"a", " ", ".", ":", "_", "-"}
ShortNames == UNION {[1..n -> NameAlphabet] : n \in 0..MaxNameLen}
Padding == [i \in 1..(MaxLength - 2) |-> "a"]
Names == ShortNames \cup {Padding \o x : x \in ShortNames}

\* the characters of INVALID_FILENAME_CHARS and of main.py's first pattern
Forbidden == {"<", ">", ":", "\"", "/", "\\", "|", "?", "*"}
UnnamedFile == <<"u","n","n","a","m","e","d","_","f","i","l","e">>

\* re.sub(INVALID_FILENAME_CHARS, ' ', filename)
InvalidToSpace(name) ==
    [i \in DOMAIN name |-> IF name[i] \in Forbidden THEN " " ELSE name[i]]

\* re.sub(r'\s+', ' ', sanitized)
RECURSIVE CollapseSpaces(_)
CollapseSpaces(name) ==
    IF Len(name) < 2 THEN name
    ELSE IF name[1] \in Whitespace /\ name[2] \in Whitespace
         THEN CollapseSpaces(Tail(name))
         ELSE <<name[1]>> \o CollapseSpaces(Tail(name))

\* name[:k] of Python, k negative included
Slice(name, k) ==
    IF k >= 0 THEN SubSeq(name, 1, Min(k, Len(name)))
    ELSE SubSeq(name, 1, Max(0, Len(name) + k))

\* os.path.splitext: the extension starts at the last dot, unless only dots
\* precede it
LastDot(name) ==
    IF \E i \in DOMAIN name : name[i] = "."
    THEN CHOOSE i \in DOMAIN name :
             name[i] = "." /\ \A j \in DOMAIN name : name[j] = "." => j <= i
    ELSE 0
ExtStart(name) ==
    IF LastDot(name) > 0 /\ \E j \in 1..(LastDot(name) - 1) : name[j] # "."
    THEN LastDot(name) ELSE Len(name) + 1
SplitName(name) == SubSeq(name, 1, ExtStart(name) - 1)
SplitExt(name) == SubSeq(name, ExtStart(name), Len(name))

\* if len(sanitized) > max_length: name[:max_length - len(ext)] + ext
Limited(name, max_length) ==
    IF Len(name) > max_length
    THEN Slice(SplitName(name), max_length - Len(SplitExt(name))) \o SplitExt(name)
    ELSE name

\* utils/file_utils.py
sanitize_filename(filename, max_length) ==
    IF filename = <<>> THEN UnnamedFile
    ELSE LET sanitized == Limited(strip(CollapseSpaces(InvalidToSpace(filename))),
                                  max_length)
         IN IF sanitized = <<>> THEN UnnamedFile ELSE sanitized

\* str.strip(chars)
RECURSIVE StripLeft(_, _)
StripLeft(name, chars) ==
    IF name # <<>> /\ Head(name) \in chars THEN StripLeft(Tail(name), chars) ELSE name
RECURSIVE StripRight(_, _)
StripRight(name, chars) ==
    IF name # <<>> /\ name[Len(name)] \in chars
    THEN StripRight(SubSeq(name, 1, Len(name) - 1), chars) ELSE name

\* re.sub(r'[\s-]+', '_', sanitized)
RECURSIVE RunsToUnderscore(_)
RunsToUnderscore(name) ==
    IF name = <<>> THEN <<>>
    ELSE IF Head(name) \in Whitespace \cup {"-"}
         THEN <<"_">> \o RunsToUnderscore(StripLeft(name, Whitespace \cup {"-"}))
         ELSE <<Head(name)>> \o RunsToUnderscore(Tail(name))

\* main.py
main_sanitize_filename(original_filename) ==
    LET kept == SelectSeq(original_filename,
                          LAMBDA c : c \notin Forbidden \cup {".", ","})
        stripped == StripRight(StripLeft(RunsToUnderscore(kept),
                                         {".", "_", "-", " "}),
                               {".", "_", "-", " "})
    IN strip(stripped)

SanAtRest ==
    /\ san.phase = "none"
    /\ cpc = "stopped"
    /\ th = <<>>
    /\ det.phase = "none"

\* utils.sanitize_filename(x), and again on what it returned
SanitizeUtils(x) ==
    /\ SanAtRest
    /\ san' = [phase |-> "called", which |-> "utils", input |-> x,
               once |-> sanitize_filename(x, MaxLength),
               twice |-> sanitize_filename(sanitize_filename(x, MaxLength), MaxLength)]
    /\ UNCHANGED <<schedVars, disk, courseVars, th, api, det, exceptSan>>

\* main.py's sanitize_filename(x), and again on what it returned
SanitizeMain(x) ==
    /\ SanAtRest
    /\ san' = [phase |-> "called", which |-> "main", input |-> x,
               once |-> main_sanitize_filename(x),
               twice |-> main_sanitize_filename(main_sanitize_filename(x))]
    /\ UNCHANGED <<schedVars, disk, courseVars, th, api, det, exceptSan>>

SanReturn ==
    /\ san.phase = "called"
    /\ san' = [phase |-> "none", which |-> "", input |-> <<>>, once |-> <<>>,
               twice |-> <<>>]
    /\ UNCHANGED <<schedVars, disk, courseVars, th, api, det, exceptSan>>

NextSanitizer ==
    \/ SanAtRest /\ \E x \in Names : SanitizeUtils(x)
    \/ SanAtRest /\ \E x \in Names : SanitizeMain(x)
    \/ SanReturn

SpecSanitizer == InitManager /\ [][NextSanitizer]_vars

\* ========================================= get_course_downloaded_lessons
\* A course directory holds a directory per downloaded lesson and may hold
\* others: logs (made by setup_course_logger of notifications/logger.py),
\* __pycache__, and a hidden one.
OtherDirNames == {"logs", "__pycache__", ".cache"}
LessonDir(l) == [type |-> "lesson", name |-> "", title |-> l]
OtherDir(n) == [type |-> "other", name |-> n, title |-> 0]
CourseDirs == {LessonDir(l) : l \in LessonTitles} \cup {OtherDir(n) : n \in OtherDirNames}

\* the files_manifest.json a course directory may hold
ManifestOf(titles) == [l \in titles |-> NewLesson(1)]
ManifestFiles ==
    {[state |-> "absent", data |-> <<>>], [state |-> "corrupt", data |-> <<>>]}
        \cup {[state |-> "ok", data |-> Encode(ManifestOf(t))] : t \in SUBSET LessonTitles}

\* main.py: the keys of a manifest that exists and loads, else every
\* subdirectory but __pycache__
MainDownloadedLessons(dirs, file) ==
    IF file.state = "ok"
    THEN {LessonDir(l) : l \in DOMAIN Decode(file.data)}
    ELSE {item \in dirs : item.name # "__pycache__"}

\* detectors/pending_detector.py: every subdirectory whose name does not start
\* with a dot
DetectorDownloadedLessons(dirs) == {item \in dirs : item.name # ".cache"}

CntAtRest ==
    /\ cnt.phase = "none"
    /\ cpc = "stopped"
    /\ th = <<>>
    /\ det.phase = "none"
    /\ san.phase = "none"

GetLessonsMain(dirs, file) ==
    /\ CntAtRest
    /\ cnt' = [phase |-> "listed", which |-> "main", dirs |-> dirs, file |-> file,
               lessons |-> MainDownloadedLessons(dirs, file)]
    /\ UNCHANGED <<schedVars, disk, courseVars, th, api, det, exceptCnt>>

GetLessonsDetector(dirs, file) ==
    /\ CntAtRest
    /\ cnt' = [phase |-> "listed", which |-> "detectors", dirs |-> dirs, file |-> file,
               lessons |-> DetectorDownloadedLessons(dirs)]
    /\ UNCHANGED <<schedVars, disk, courseVars, th, api, det, exceptCnt>>

\* local_total = len(lessons_downloaded), then the next course
CntReturn ==
    /\ cnt.phase = "listed"
    /\ cnt' = [phase |-> "none", which |-> "", dirs |-> {},
               file |-> [state |-> "absent", data |-> <<>>], lessons |-> {}]
    /\ UNCHANGED <<schedVars, disk, courseVars, th, api, det, exceptCnt>>

NextCount ==
    \/ CntAtRest /\ \E dirs \in SUBSET CourseDirs, file \in ManifestFiles :
                       GetLessonsMain(dirs, file)
    \/ CntAtRest /\ \E dirs \in SUBSET CourseDirs, file \in ManifestFiles :
                       GetLessonsDetector(dirs, file)
    \/ CntReturn

SpecCount == InitManager /\ [][NextCount]_vars

\* ===================== find_incomplete_courses over several local courses
\* Every local course here has its match on the platform. The page of a
\* course lists some lessons, or loading it times out or raises.
PageOutcomes == {"ok", "timeout", "error"}

\* a count whose except clauses are missing
get_total_lessons_unguarded(page, listed) ==
    [raised |-> page # "ok", total |-> listed]

\* get_total_lessons_from_platform: len(lesson_elements), or 0 from either
\* except clause (telegram.send there returns False when it cannot send)
get_total_lessons_from_platform(page, listed) ==
    [raised |-> FALSE, total |-> IF page = "ok" THEN listed ELSE 0]

ScanAtRest ==
    /\ scan.phase = "none"
    /\ cpc = "stopped"
    /\ th = <<>>
    /\ det.phase = "none"
    /\ san.phase = "none"
    /\ cnt.phase = "none"

\* find_incomplete_courses entered with MaxCourses downloaded courses
ScanStart ==
    /\ ScanAtRest
    /\ scan' = [scan EXCEPT !.phase = "loop", !.course = 1]
    /\ UNCHANGED <<schedVars, disk, courseVars, th, api, det, exceptScan>>

\* one iteration of `for local_course_name, local_course_path in ...`
ScanCourse(local_total, page, listed) ==
    LET counted == get_total_lessons_from_platform(page, listed)
        incomplete == IsIncomplete(local_total, counted.total)
    IN /\ scan.phase = "loop"
       /\ scan.course <= MaxCourses
       /\ scan' = IF counted.raised
                  THEN [scan EXCEPT !.phase = "aborted", !.local = local_total,
                                    !.page = page]
                  ELSE [phase |-> "loop", course |-> scan.course + 1,
                        local |-> local_total, page |-> page,
                        platform_total |-> counted.total, reported |-> incomplete,
                        failures |-> scan.failures + (IF page = "ok" THEN 0 ELSE 1),
                        found |-> scan.found + (IF incomplete THEN 1 ELSE 0)]
       /\ UNCHANGED <<schedVars, disk, courseVars, th, api, det, exceptScan>>

\* return incomplete, courses_map
ScanReturn ==
    /\ scan.phase = "loop"
    /\ scan.course > MaxCourses
    /\ scan' = [scan EXCEPT !.phase = "returned"]
    /\ UNCHANGED <<schedVars, disk, courseVars, th, api, det, exceptScan>>

NextScan ==
    \/ ScanStart
    \/ \E local_total \in 0..MaxLocal, page \in PageOutcomes,
          listed \in 0..(MaxLocal + 1) : ScanCourse(local_total, page, listed)
    \/ ScanReturn

SpecScan == InitManager /\ [][NextScan]_vars

\* ============================== run_downloader over the selected courses
\* The platform lists the courses 1..MaxCourses and the user selects some of
\* them, kept in the order of the list. batch.course is the position in
\* selected_courses; what each step of a course does is its outcome: it goes
\* on, it skips the course, or it raises an exception that nothing inside
\* the loop catches (driver.get in get_lesson_data, os.makedirs of the
\* course path).
RECURSIVE Ascending(_)
Ascending(S) ==
    IF S = {} THEN <<>>
    ELSE LET c == CHOOSE x \in S : \A y \in S : x <= y
         IN  <<c>> \o Ascending(S \ {c})

Selections == {Ascending(S) : S \in SUBSET (1..MaxCourses)}

BatchAtRest ==
    /\ batch.phase = "none"
    /\ cpc = "stopped"
    /\ th = <<>>
    /\ det.phase = "none"
    /\ san.phase = "none"
    /\ cnt.phase = "none"
    /\ scan.phase = "none"

\* telegram.notify_error(str(e)): one more call of the notifier
Notified(b) == [b EXCEPT !.error_notices = @ + 1]

\* TelegramNotifier(...), then os.makedirs(download_dir): on OSError the
\* message is printed and sys.exit(1) leaves
RunStart ==
    /\ BatchAtRest
    /\ \/ batch' = [batch EXCEPT !.phase = "setup"]
       \/ batch' = [batch EXCEPT !.phase = "exited", !.abort = "download_dir",
                                 !.exit_code = 1]
    /\ UNCHANGED <<schedVars, disk, courseVars, th, api, det, exceptBatch>>

\* login, get_course_data, find_incomplete_courses, the selection: inside the
\* try, so an exception goes to `except Exception` and notify_error
RunSetup ==
    /\ batch.phase = "setup"
    /\ \/ \E sel \in Selections :
            batch' = IF sel = <<>>
                     THEN [batch EXCEPT !.phase = "exited"]
                     ELSE [batch EXCEPT !.phase = "courses", !.selected = sel,
                                        !.course = 1, !.step = "login"]
       \/ batch' = Notified([batch EXCEPT !.phase = "exited", !.abort = "exception"])
    /\ UNCHANGED <<schedVars, disk, courseVars, th, api, det, exceptBatch>>

\* the exception leaves the loop and the try: `except Exception` sends
\* notify_error and the run is over
Raised(b) ==
    Notified([b EXCEPT !.phase = "exited", !.abort = "exception",
                       !.raisedIn = b.course, !.step = ""])

\* `continue`, or the end of the loop body: the next selected course
Continue(b) == [b EXCEPT !.course = @ + 1, !.step = "login", !.lessons = 0, !.lesson = 0]

InCourse(step) ==
    /\ batch.phase = "courses"
    /\ batch.course <= Len(batch.selected)
    /\ batch.step = step

\* ensure_logged_in: False skips the course
CourseLogin ==
    /\ InCourse("login")
    /\ \/ batch' = Continue([batch EXCEPT !.attempted = @ \cup {batch.course}])
       \/ batch' = [batch EXCEPT !.attempted = @ \cup {batch.course}, !.step = "makedirs"]
    /\ UNCHANGED <<schedVars, disk, courseVars, th, api, det, exceptBatch>>

\* setup_course_logger, os.makedirs(course_download_path, exist_ok=True),
\* FileManifestManager(...)
CourseMakedirs ==
    /\ InCourse("makedirs")
    /\ \/ batch' = [batch EXCEPT !.step = "lessons"]
       \/ batch' = Raised(batch)
    /\ UNCHANGED <<schedVars, disk, courseVars, th, api, det, exceptBatch>>

\* get_lesson_data: driver.get outside its try, a TimeoutException of the
\* wait gives []; no lessons skips the course
CourseLessons ==
    /\ InCourse("lessons")
    /\ \/ \E n \in 1..MaxLessons :
            batch' = [batch EXCEPT !.step = "lesson", !.lessons = n, !.lesson = 1]
       \/ batch' = Continue(batch)
       \/ batch' = Raised(batch)
    /\ UNCHANGED <<schedVars, disk, courseVars, th, api, det, exceptBatch>>

\* download_lesson_materials for lesson j, notify_lesson_progress
CourseLesson ==
    /\ InCourse("lesson")
    /\ batch.lesson <= batch.lessons
    /\ \/ batch' = [batch EXCEPT !.lesson = @ + 1]
       \/ batch' = Raised(batch)
    /\ UNCHANGED <<schedVars, disk, courseVars, th, api, det, exceptBatch>>

\* end_time, the statistics, notify_course_complete
CourseEnd ==
    /\ InCourse("lesson")
    /\ batch.lesson > batch.lessons
    /\ batch' = Continue([batch EXCEPT !.done = @ \cup {batch.course}])
    /\ UNCHANGED <<schedVars, disk, courseVars, th, api, det, exceptBatch>>

\* after the loop: total_time reads end_time and start_time, notify_complete
\* reads delta: names bound only when some course came to its end, otherwise
\* a NameError inside the try
RunComplete ==
    /\ batch.phase = "courses"
    /\ batch.course > Len(batch.selected)
    /\ batch' = IF batch.done = {}
                THEN Notified([batch EXCEPT !.phase = "exited", !.abort = "exception", !.step = ""])
                ELSE [batch EXCEPT !.phase = "exited", !.step = ""]
    /\ UNCHANGED <<schedVars, disk, courseVars, th, api, det, exceptBatch>>

\* the program is started again
RunAgain ==
    /\ batch.phase = "exited"
    /\ batch.run < MaxRuns
    /\ batch' = [phase |-> "none", run |-> batch.run + 1, selected |-> <<>>,
                 course |-> 0, step |-> "", lessons |-> 0, lesson |-> 0,
                 attempted |-> {}, done |-> {}, abort |-> "none", raisedIn |-> 0,
                 error_notices |-> 0, exit_code |-> 0]
    /\ UNCHANGED <<schedVars, disk, courseVars, th, api, det, exceptBatch>>

NextBatch ==
    \/ RunStart
    \/ RunSetup
    \/ CourseLogin
    \/ CourseMakedirs
    \/ CourseLessons
    \/ CourseLesson
    \/ CourseEnd
    \/ RunComplete
    \/ RunAgain

SpecBatch == InitManager /\ [][NextBatch]_vars

\* ==================================================== configuration at start
\* The settings are read from the environment when the module is imported:
\* TELEGRAM_ENABLED, and whether TELEGRAM_BOT_TOKEN and TELEGRAM_CHAT_ID are
\* set (a boolean each, since only their truth is tested). Then come, in any
\* order, Settings.validate(), TelegramNotifier(...) and
\* ParallelDownloadManager(...). cfg.requests counts the HTTP requests the
\* call issued, cfg.error is the exception it raised; cfg.notifier is "none"
\* before the notifier exists, then "enabled" or "disabled"; max_workers is 0
\* before the manager exists.
WorkerRequests == 0..(PDF_MAX_WORKERS + 1)

CfgIdle ==
    /\ cfg.phase = "none"
    /\ batch.phase = "none"
    /\ cpc = "stopped"
    /\ th = <<>>
    /\ det.phase = "none"
    /\ san.phase = "none"
    /\ cnt.phase = "none"
    /\ scan.phase = "none"

\* class Settings: os.getenv(...) for the three Telegram settings
LoadSettings(enabled, token, chat_id) ==
    /\ cfg.phase = "unloaded"
    /\ cfg' = [cfg EXCEPT !.phase = "none", !.TELEGRAM_ENABLED = enabled,
                          !.TELEGRAM_BOT_TOKEN = token,
                          !.TELEGRAM_CHAT_ID = chat_id]
    /\ UNCHANGED <<schedVars, disk, courseVars, th, api, det, exceptCfg>>

\* Settings.validate(): ValueError when Telegram is enabled and the token or
\* the chat id is missing
validate(enabled, token, chat_id) ==
    IF enabled /\ ~token THEN "ValueError"
    ELSE IF enabled /\ ~chat_id THEN "ValueError"
    ELSE "none"

SettingsValidate ==
    /\ CfgIdle
    /\ cfg' = [cfg EXCEPT !.phase = "returned", !.op = "validate",
                          !.error = validate(cfg.TELEGRAM_ENABLED,
                                             cfg.TELEGRAM_BOT_TOKEN,
                                             cfg.TELEGRAM_CHAT_ID)]
    /\ UNCHANGED <<schedVars, disk, courseVars, th, api, det, exceptCfg>>

\* TelegramNotifier(enabled=arg): self.enabled = enabled and
\* settings.TELEGRAM_ENABLED, last_send_time = 0; when enabled,
\* _test_connection calls send, which posts to the API, sets last_send_time
\* after a success and turns a RequestException into False. Nothing looks at
\* the token or the chat id and nothing is raised. Without token or chat id
\* the API refuses the request.
TelegramNotifierInit(arg, posted) ==
    /\ CfgIdle
    /\ cfg.notifier = "none"
    /\ posted => (cfg.TELEGRAM_BOT_TOKEN /\ cfg.TELEGRAM_CHAT_ID)
    /\ LET enabled == arg /\ cfg.TELEGRAM_ENABLED
       IN  cfg' = [cfg EXCEPT !.phase = "returned", !.op = "notifier",
                              !.notifier = IF enabled THEN "enabled" ELSE "disabled",
                              !.last_send_time = IF enabled /\ posted THEN 1 ELSE 0,
                              !.requests = IF enabled THEN 1 ELSE 0]
    /\ UNCHANGED <<schedVars, disk, courseVars, th, api, det, exceptCfg>>

\* ParallelDownloadManager(max_workers=n): the number is clamped to 1..10
ManagerInit(n) ==
    /\ CfgIdle
    /\ cfg.max_workers = 0
    /\ cfg' = [cfg EXCEPT !.phase = "returned", !.op = "manager",
                          !.requested = n, !.max_workers = PdfClamp(n)]
    /\ UNCHANGED <<schedVars, disk, courseVars, th, api, det, exceptCfg>>

\* the call is over
CfgReturn ==
    /\ cfg.phase = "returned"
    /\ cfg' = [cfg EXCEPT !.phase = "none", !.op = "", !.error = "none", !.requests = 0]
    /\ UNCHANGED <<schedVars, disk, courseVars, th, api, det, exceptCfg>>

NextConfig ==
    \/ \E enabled, token, chat_id \in BOOLEAN : LoadSettings(enabled, token, chat_id)
    \/ SettingsValidate
    \/ \E arg, posted \in BOOLEAN : TelegramNotifierInit(arg, posted)
    \/ \E n \in WorkerRequests : ManagerInit(n)
    \/ CfgReturn

SpecConfig == InitManager /\ [][NextConfig]_vars

\* ================================================= TelegramNotifier.send
\* Time is counted in seconds; tg.now is the clock (time.time()), which starts
\* at least min_interval after the epoch. tg.sent holds the times at which the
\* last two requests were posted to the API, the older first.
min_interval == MIN_NOTIFICATION_INTERVAL

PostDurations == 0..1

LastTwo(times) == IF Len(times) > 2 THEN Tail(times) ELSE times

\* the time at which send posts: current_time, or after the sleep
PostTime(t) ==
    IF t.now - t.last_send_time < min_interval
    THEN t.now + (min_interval - (t.now - t.last_send_time))
    ELSE t.now

\* send(message) on a notifier in state t: the post takes d seconds and
\* succeeds or not; last_send_time is assigned after raise_for_status only
send(t, ok, d) ==
    IF ~t.enabled
    THEN [t EXCEPT !.result = FALSE]
    ELSE [t EXCEPT !.now = PostTime(t) + d,
                   !.sent = LastTwo(Append(@, PostTime(t))),
                   !.last_send_time = IF ok THEN PostTime(t) + d ELSE @,
                   !.result = ok]

TgIdle ==
    /\ cfg.phase = "unloaded"
    /\ batch.phase = "none"
    /\ cpc = "stopped"
    /\ th = <<>>
    /\ det.phase = "none"
    /\ san.phase = "none"
    /\ cnt.phase = "none"
    /\ scan.phase = "none"

\* TelegramNotifier(enabled=...): last_send_time = 0, then _test_connection
TelegramConstruct(enabled, ok, d) ==
    /\ TgIdle
    /\ tg.phase = "none"
    /\ tg' = send([tg EXCEPT !.phase = "ready", !.enabled = enabled], ok, d)
    /\ UNCHANGED <<schedVars, disk, courseVars, th, api, det, exceptTg>>

\* a call of send, directly or through one of the notify_* methods
TelegramSend(ok, d) ==
    /\ tg.phase = "ready"
    /\ PostTime(tg) + d <= MaxTime
    /\ tg' = send(tg, ok, d)
    /\ UNCHANGED <<schedVars, disk, courseVars, th, api, det, exceptTg>>

\* time passes between two calls
TelegramWait ==
    /\ tg.phase = "ready"
    /\ tg.now < MaxTime
    /\ tg' = [tg EXCEPT !.now = @ + 1]
    /\ UNCHANGED <<schedVars, disk, courseVars, th, api, det, exceptTg>>

NextTelegram ==
    \/ TgIdle /\ \E enabled, ok \in BOOLEAN : \E d \in PostDurations :
            TelegramConstruct(enabled, ok, d)
    \/ \E ok \in BOOLEAN : \E d \in PostDurations : TelegramSend(ok, d)
    \/ TelegramWait

SpecTelegram == InitManager /\ [][NextTelegram]_vars

\* ======================================================== ProgressMonitor
\* The monitor runs beside a PDF manager. active_tasks maps a file name to the
\* DownloadTask registered under it, here the task's index in self.tasks (the
\* dict holds a reference to the same object); the file name of a task is the
\* last component of its file_path, so the path stands for it. mon.shown is
\* what the display thread printed last.
file_name(t) == tasks[t].file_path

\* task.get_progress_percentage()
get_progress_percentage(tk) ==
    IF tk.total_bytes = 0 THEN 0 ELSE (tk.bytes_downloaded * 100) \div tk.total_bytes

\* the lines of one task on the screen
ProgressLine(tk) ==
    [file_name |-> tk.file_path, progress |-> get_progress_percentage(tk),
     bytes_downloaded |-> tk.bytes_downloaded, total_bytes |-> tk.total_bytes]

\* a monitor whose add_task starts the task's progress afresh
add_task_resetting(t) ==
    /\ t \in TaskIds
    /\ future[t] = "stream"
    /\ mon' = [mon EXCEPT !.active_tasks =
                   [n \in DOMAIN @ \cup {file_name(t)} |->
                       IF n = file_name(t) THEN t ELSE @[n]]]
    /\ tasks' = [tasks EXCEPT ![t].bytes_downloaded = 0]
    /\ UNCHANGED <<kind, requested, future, recv, completed_tasks, failed_tasks,
                   skipped_tasks, pc, second, run, execs, fresh, prevOk>>
    /\ UNCHANGED <<disk, courseVars, th, api, det, exceptMon>>

\* add_task(task): self.active_tasks[task.file_name] = task; the progress
\* callback of the manager calls it from the worker that streams the task
add_task(t) ==
    /\ t \in TaskIds
    /\ future[t] = "stream"
    /\ mon' = [mon EXCEPT !.active_tasks =
                   [n \in DOMAIN @ \cup {file_name(t)} |->
                       IF n = file_name(t) THEN t ELSE @[n]]]
    /\ UNCHANGED <<schedVars, disk, courseVars, th, api, det, exceptMon>>

\* remove_task(file_name): self.active_tasks.pop(file_name, None)
remove_task(name) ==
    /\ mon' = [mon EXCEPT !.active_tasks = [n \in DOMAIN @ \ {name} |-> @[n]]]
    /\ UNCHANGED <<schedVars, disk, courseVars, th, api, det, exceptMon>>

\* start(): a daemon thread running _display_progress, once
MonitorStart ==
    /\ ~mon.running
    /\ mon' = [mon EXCEPT !.running = TRUE, !.monitor_thread = "alive"]
    /\ UNCHANGED <<schedVars, disk, courseVars, th, api, det, exceptMon>>

\* stop(): running = False, join(timeout=2) returns with the thread ended or not
MonitorStop ==
    /\ mon.running
    /\ \/ mon' = [mon EXCEPT !.running = FALSE]
       \/ mon' = [mon EXCEPT !.running = FALSE, !.monitor_thread = "ended"]
    /\ UNCHANGED <<schedVars, disk, courseVars, th, api, det, exceptMon>>

\* one round of `while self.running` in _display_progress: the tasks under
\* the lock, then a line for each that is downloading or completed
DisplayProgress ==
    /\ mon.monitor_thread = "alive"
    /\ mon.running
    /\ LET listed == {mon.active_tasks[n] : n \in DOMAIN mon.active_tasks}
       IN  mon' = [mon EXCEPT !.shown =
                      IF listed = {} THEN @
                      ELSE {ProgressLine(tasks[t]) :
                              t \in {u \in listed :
                                       tasks[u].status \in {"downloading", "completed"}}}]
    /\ UNCHANGED <<schedVars, disk, courseVars, th, api, det, exceptMon>>

\* the loop finds running False and the thread ends
DisplayExit ==
    /\ mon.monitor_thread = "alive"
    /\ ~mon.running
    /\ mon' = [mon EXCEPT !.monitor_thread = "ended"]
    /\ UNCHANGED <<schedVars, disk, courseVars, th, api, det, exceptMon>>

\* download_lesson_materials: a manager of its own with the workers asked for
InitMonitor ==
    /\ AuxAtRest
    /\ kind = "pdf"
    /\ requested = 2
    /\ disk = [p \in {} |-> 0]
    /\ SchedAtRest
    /\ CourseAtRest

NextMonitor ==
    \/ \E p \in Paths : AddTask(p)
    \/ pc = "idle" /\ DownloadAllStart
    \/ \E t \in TaskIds : Begin(t)
    \/ \E t \in TaskIds : Request(t)
    \/ \E t \in TaskIds : Stream(t)
    \/ Return
    \/ MonitorStart
    \/ \E t \in TaskIds : add_task(t)
    \/ \E name \in DOMAIN mon.active_tasks : remove_task(name)
    \/ DisplayProgress
    \/ DisplayExit
    \/ MonitorStop

SpecMonitor == InitMonitor /\ [][NextMonitor]_vars

\* ================================== pairing a local course with the catalog
\* available_courses is the catalog in the order the platform lists it, here
\* the sequence of its titles; platform_course is the position of the course
\* the loop stopped at, 0 for None.
PairTitles == CourseTitles \cup {<<"a", "B">>}
Catalogs == UNION {[1..n -> PairTitles] : n \in 0..MaxCatalog}

\* for course in available_courses: if detector._courses_match(...): break
RECURSIVE FirstMatch(_, _, _, _)
FirstMatch(name, meta, catalog, i) ==
    IF i > Len(catalog) THEN 0
    ELSE IF _courses_match(name, catalog[i], meta) THEN i
    ELSE FirstMatch(name, meta, catalog, i + 1)

PairAtRest ==
    /\ pair.phase = "none"
    /\ det.phase = "none"
    /\ cpc = "stopped"
    /\ th = <<>>
    /\ batch.phase = "none"
    /\ scan.phase = "none"

\* find_incomplete_courses, for one local course: the original title of the
\* sidecar when there is one, then the loop over the catalog
PairCourse(local_course_name, meta, catalog) ==
    LET original_course_name ==
            IF meta.exists THEN meta.original_title ELSE local_course_name
    IN /\ PairAtRest
       /\ pair' = [phase |-> "paired", name |-> original_course_name,
                   meta |-> meta, catalog |-> catalog,
                   platform_course |-> FirstMatch(original_course_name, meta, catalog, 1)]
       /\ UNCHANGED <<schedVars, disk, courseVars, th, api, det, exceptPair>>

\* the loop over the local courses goes on
PairReturn ==
    /\ pair.phase = "paired"
    /\ pair' = [phase |-> "none", name |-> <<>>, meta |-> NoMetadata,
                catalog |-> <<>>, platform_course |-> 0]
    /\ UNCHANGED <<schedVars, disk, courseVars, th, api, det, exceptPair>>

NextPair ==
    \/ /\ PairAtRest
       /\ \E local_course_name \in PairTitles, catalog \in Catalogs :
             \E meta \in {NoMetadata} \cup {Metadata(t) : t \in PairTitles} :
                 PairCourse(local_course_name, meta, catalog)
    \/ PairReturn

SpecPair == InitManager /\ [][NextPair]_vars

\* ============================================ the schedulers on an empty disk
\* a download directory that holds nothing yet: every file found later was
\* written by a worker of these schedulers
InitEmptyDisk ==
    /\ Init
    /\ DOMAIN disk = {}

SpecEmptyDisk == InitEmptyDisk /\ [][Next]_vars

\* ==================================================== get_progress_summary
\* A thread calls get_progress_summary of a PDF manager while the workers run.
\* tasks_copy is a copy of the list, not of the tasks: obs.copy holds the
\* indices of the tasks in it. Every list comprehension and every sum is a
\* pass of its own over the live tasks; a pass is taken as one step. The
\* server's content-length is any of ContentLengths, 0 for a missing header
\* (a compressed body is longer than its content-length).
ContentLengths == 0..(BodyChunks + 1)

\* the order of the five comprehensions
StatusPasses == <<"completed", "downloading", "pending", "failed", "skipped">>

RECURSIVE SumTotal(_)
SumTotal(ids) ==
    IF ids = {} THEN 0
    ELSE LET t == CHOOSE x \in ids : TRUE
         IN  tasks[t].total_bytes + SumTotal(ids \ {t})

RECURSIVE SumDownloaded(_)
SumDownloaded(ids) ==
    IF ids = {} THEN 0
    ELSE LET t == CHOOSE x \in ids : TRUE
         IN  tasks[t].bytes_downloaded + SumDownloaded(ids \ {t})

\* round(downloaded_bytes / total_bytes * 100, 2) if total_bytes > 0 else 0,
\* in hundredths of a percent
progress_pct(downloaded_bytes, total_bytes) ==
    IF total_bytes > 0
    THEN LET q == (10000 * downloaded_bytes) \div total_bytes
             rem == (10000 * downloaded_bytes) % total_bytes
         IN IF 2 * rem > total_bytes THEN q + 1
            ELSE IF 2 * rem = total_bytes THEN q + (q % 2)
            ELSE q
    ELSE 0

\* with self.tasks_lock: tasks_copy = self.tasks.copy()
SummaryCopy ==
    /\ obs.phase \in {"none", "returned"}
    /\ tasks # <<>>
    /\ obs' = [phase |-> "counting", copy |-> TaskIds, pass |-> 1,
               counts |-> [st \in {} |-> 0], total_bytes |-> 0,
               downloaded_bytes |-> 0, progress_percentage |-> 0]
    /\ UNCHANGED <<schedVars, disk, courseVars, th, api, det, exceptObs>>

\* len([t for t in tasks_copy if t.status == st]) for the next status
SummaryCount ==
    /\ obs.phase = "counting"
    /\ LET st == StatusPasses[obs.pass]
           n == Cardinality({t \in obs.copy : tasks[t].status = st})
       IN obs' = [obs EXCEPT
                    !.counts = [x \in DOMAIN @ \cup {st} |-> IF x = st THEN n ELSE @[x]],
                    !.pass = @ + 1,
                    !.phase = IF obs.pass = Len(StatusPasses) THEN "total" ELSE @]
    /\ UNCHANGED <<schedVars, disk, courseVars, th, api, det, exceptObs>>

\* total_bytes = sum(t.total_bytes for t in tasks_copy)
SummaryTotal ==
    /\ obs.phase = "total"
    /\ obs' = [obs EXCEPT !.total_bytes = SumTotal(obs.copy), !.phase = "downloaded"]
    /\ UNCHANGED <<schedVars, disk, courseVars, th, api, det, exceptObs>>

\* downloaded_bytes = sum(...), progress_pct, the dict
SummaryReturn ==
    /\ obs.phase = "downloaded"
    /\ LET downloaded_bytes == SumDownloaded(obs.copy)
       IN obs' = [obs EXCEPT !.downloaded_bytes = downloaded_bytes,
                             !.progress_percentage =
                                 progress_pct(downloaded_bytes, obs.total_bytes),
                             !.phase = "returned"]
    /\ UNCHANGED <<schedVars, disk, courseVars, th, api, det, exceptObs>>

NextSummary ==
    \/ \E p \in Paths : AddTask(p)
    \/ pc = "idle" /\ DownloadAllStart
    \/ \E t \in TaskIds : Begin(t)
    \/ \E t \in TaskIds : \E n \in ContentLengths : RequestLen(t, n)
    \/ \E t \in TaskIds : Stream(t)
    \/ Return
    \/ SummaryCopy
    \/ SummaryCount
    \/ SummaryTotal
    \/ SummaryReturn

SpecSummary == InitMonitor /\ [][NextSummary]_vars

\* ============================================ start and stop of the loops
\* One object of one of three classes: the ProgressMonitor, the
\* SessionKeepAlive of core/session.py (both with a `running` flag) and the
\* SessionKeepAlive of main.py (with a stop_event; running stands for the
\* event being clear). life.thread is the thread the object refers to: none,
\* alive or ended; life.orphans counts the threads still in the loop that the
\* object no longer refers to. life.calls are the calls made so far.
LoopClasses == {"ProgressMonitor", "core.SessionKeepAlive", "main.SessionKeepAlive"}

LoopThreads == life.orphans + (IF life.thread = "alive" THEN 1 ELSE 0)

LifeIdle ==
    /\ cfg.phase = "unloaded"
    /\ batch.phase = "none"
    /\ tg.phase = "none"
    /\ pair.phase = "none"
    /\ cpc = "stopped"
    /\ th = <<>>

\* __init__: running = False (stop_event not set), thread = None
LoopConstruct(class) ==
    /\ LifeIdle
    /\ life.class = "none"
    /\ life' = [life EXCEPT !.class = class, !.running = class = "main.SessionKeepAlive"]
    /\ UNCHANGED <<schedVars, disk, courseVars, th, api, det, exceptLife>>

\* a new Thread(target=loop) takes the place of self.thread; a thread that
\* was alive goes on without a reference
Started(l) ==
    [l EXCEPT !.running = TRUE, !.thread = "alive",
              !.orphans = IF l.thread = "alive" THEN @ + 1 ELSE @]

\* start(): `if not self.running` in ProgressMonitor and core/session.py,
\* `if self.thread is None or not self.thread.is_alive()` in main.py
LoopStart ==
    /\ life.class # "none"
    /\ Len(life.calls) < MaxCalls
    /\ LET called == [life EXCEPT !.calls = Append(@, "start")]
       IN life' = IF life.class = "main.SessionKeepAlive"
                  THEN IF life.thread # "alive" THEN Started(called) ELSE called
                  ELSE IF ~life.running THEN Started(called) ELSE called
    /\ UNCHANGED <<schedVars, disk, courseVars, th, api, det, exceptLife>>

\* stop(): the flag is taken back (the event is set), then
\* self.thread.join(timeout=...) returns when the thread has ended or when
\* the timeout is over, the thread still asleep or busy
LoopStop ==
    /\ life.class # "none"
    /\ Len(life.calls) < MaxCalls
    /\ LET called == [life EXCEPT !.calls = Append(@, "stop"), !.running = FALSE]
       IN \/ life' = called
          \/ /\ life.thread = "alive"
             /\ life' = [called EXCEPT !.thread = "ended"]
    /\ UNCHANGED <<schedVars, disk, courseVars, th, api, det, exceptLife>>

\* `while self.running` / `while not self.stop_event.is_set()` found false by
\* the thread the object refers to: it ends
LoopExit ==
    /\ life.thread = "alive"
    /\ ~life.running
    /\ life' = [life EXCEPT !.thread = "ended"]
    /\ UNCHANGED <<schedVars, disk, courseVars, th, api, det, exceptLife>>

\* the same for a thread without a reference
OrphanExit ==
    /\ life.orphans > 0
    /\ ~life.running
    /\ life' = [life EXCEPT !.orphans = @ - 1]
    /\ UNCHANGED <<schedVars, disk, courseVars, th, api, det, exceptLife>>

NextLife ==
    \/ \E class \in LoopClasses : LoopConstruct(class)
    \/ LoopStart
    \/ LoopStop
    \/ LoopExit
    \/ OrphanExit

SpecLife == InitManager /\ [][NextLife]_vars

\* ================================================= download_video_segmented
\* self.num_segments = max(2, min(num_segments, 16))
SegmentClamp(n) == Max(2, Min(n, 16))

\* the byte ranges of the segments: segment_size = total_size // num_segments;
\* segment i (from 0) starts at i * segment_size and ends one byte before the
\* next start, the last one at total_size - 1
segment_ranges(total_size, num_segments) ==
    LET segment_size == total_size \div num_segments
    IN [k \in 1..num_segments |->
          LET i == k - 1
              start_byte == i * segment_size
          IN [start_byte |-> start_byte,
              end_byte |-> IF i < num_segments - 1
                           THEN start_byte + segment_size - 1
                           ELSE total_size - 1]]

SegRest ==
    [phase |-> "none", num_segments |-> 0, total_size |-> 0, ranges |-> <<>>,
     parts |-> <<>>, output |-> "absent", existed |-> FALSE, result |-> "none"]

SegIdle ==
    /\ seg.phase = "none"
    /\ life.class = "none"
    /\ cfg.phase = "unloaded"
    /\ batch.phase = "none"
    /\ tg.phase = "none"
    /\ pair.phase = "none"
    /\ cpc = "stopped"
    /\ th = <<>>

\* SegmentedVideoDownloader(num_segments=n).download_video_segmented(...) up
\* to the list of download_tasks, for a video of total_size bytes
ComputeRanges(n, total_size) ==
    /\ SegIdle
    /\ seg' = [SegRest EXCEPT !.phase = "computed",
                              !.num_segments = SegmentClamp(n),
                              !.total_size = total_size,
                              !.ranges = segment_ranges(total_size, SegmentClamp(n))]
    /\ UNCHANGED <<schedVars, disk, courseVars, th, api, det, exceptSeg>>

RangesReturn ==
    /\ seg.phase = "computed"
    /\ seg' = SegRest
    /\ UNCHANGED <<schedVars, disk, courseVars, th, api, det, exceptSeg>>

NextRanges ==
    \/ SegIdle /\ \E n \in 0..17, total_size \in 1..MaxSize : ComputeRanges(n, total_size)
    \/ RangesReturn

SpecRanges == InitManager /\ [][NextRanges]_vars

\* ------------------------------------------- the segments and the merge
\* seg.parts[k] is segment k: what its worker returned (pending, ok, failed)
\* and its file <output_path>.part<k-1> (absent, partial, full). seg.output
\* is the file at output_path: absent, old (there before the call, untouched),
\* partial (opened by the merge, not all segments in it) or full.
PendingPart == [done |-> "pending", file |-> "absent"]

\* supports_range_requests, the HEAD request, the ranges; then the pool starts
SegmentedCall(n, total_size, supported, existed) ==
    /\ SegIdle
    /\ LET called == [SegRest EXCEPT !.num_segments = SegmentClamp(n),
                                     !.existed = existed,
                                     !.output = IF existed THEN "old" ELSE "absent"]
       IN seg' = IF ~supported \/ total_size = 0
                 THEN [called EXCEPT !.phase = "returned", !.result = "failed"]
                 ELSE [called EXCEPT
                         !.phase = "downloading", !.total_size = total_size,
                         !.ranges = segment_ranges(total_size, SegmentClamp(n)),
                         !.parts = [k \in 1..SegmentClamp(n) |-> PendingPart]]
    /\ UNCHANGED <<schedVars, disk, courseVars, th, api, det, exceptSeg>>

\* _download_segment for segment k: the request is refused or fails (no file),
\* the stream breaks after open(segment_path, 'wb') (a partial file), or the
\* segment is written in full
DownloadSegment(k) ==
    /\ seg.phase = "downloading"
    /\ k \in DOMAIN seg.parts
    /\ seg.parts[k].done = "pending"
    /\ \E part \in {[done |-> "ok", file |-> "full"],
                    [done |-> "failed", file |-> "absent"],
                    [done |-> "failed", file |-> "partial"]} :
          seg' = [seg EXCEPT !.parts[k] = part]
    /\ UNCHANGED <<schedVars, disk, courseVars, th, api, det, exceptSeg>>

\* after the pool: `if failed_segments: return False, ...`, else the merge
SegmentsDone ==
    /\ seg.phase = "downloading"
    /\ \A k \in DOMAIN seg.parts : seg.parts[k].done # "pending"
    /\ seg' = IF \E k \in DOMAIN seg.parts : seg.parts[k].done = "failed"
              THEN [seg EXCEPT !.phase = "returned", !.result = "failed"]
              ELSE [seg EXCEPT !.phase = "merging"]
    /\ UNCHANGED <<schedVars, disk, courseVars, th, api, det, exceptSeg>>

\* _merge_segments: open(output_path, 'wb') creates or truncates the file;
\* then every segment is written into it and the segment files are removed,
\* or a read or write raises (or a segment is no longer there) and False is
\* returned from inside the `with`
MergeSegments ==
    /\ seg.phase = "merging"
    /\ \/ seg' = [seg EXCEPT !.phase = "returned", !.result = "failed"]
       \/ seg' = [seg EXCEPT !.phase = "returned", !.result = "failed",
                             !.output = "partial"]
       \/ seg' = [seg EXCEPT !.phase = "returned", !.result = "ok",
                             !.output = "full",
                             !.parts = [k \in DOMAIN @ |-> [@[k] EXCEPT !.file = "absent"]]]
    /\ UNCHANGED <<schedVars, disk, courseVars, th, api, det, exceptSeg>>

\* the caller has the result; the next video
SegmentedReturn ==
    /\ seg.phase = "returned"
    /\ seg' = SegRest
    /\ UNCHANGED <<schedVars, disk, courseVars, th, api, det, exceptSeg>>

NextSegmented ==
    \/ SegIdle /\ \E n \in 0..MaxSegmentsArg, total_size \in 0..MaxSize :
            \E supported, existed \in BOOLEAN :
                SegmentedCall(n, total_size, supported, existed)
    \/ \E k \in DOMAIN seg.parts : DownloadSegment(k)
    \/ SegmentsDone
    \/ MergeSegments
    \/ SegmentedReturn

SpecSegmented == InitManager /\ [][NextSegmented]_vars

\* ===================================================== scheduler properties
Failures == {t \in TaskIds : future[t] \in {"false", "raised"}}
Downloading == {t \in TaskIds : tasks[t].status = "downloading"}
DistinctPaths ==
    \A s, t \in TaskIds : s # t => tasks[s].file_path # tasks[t].file_path

\* C1: when download_all / download_all_videos has returned its statistics,
\* every task of the scheduler is completed, failed or skipped.
C1_AllTerminalAtReturn ==
    pc = "returned" => \A t \in TaskIds : tasks[t].status \in Terminal

\* C2: a task whose fetch ended in a timeout, connection, HTTP or filesystem
\* error has status failed and a non-empty error_message.
C2_FailureIsRecorded ==
    \A t \in Failures : tasks[t].status = "failed" /\ tasks[t].error_message # ""

\* C3: once a task's status is completed, failed or skipped, no later step of
\* the same manager changes it, a second download_all call included.
C3_TerminalIsFinal ==
    [][\A t \in TaskIds :
         (run' = run /\ tasks[t].status \in Terminal)
             => tasks'[t].status = tasks[t].status]_vars

C5_DownloadingWithinPool ==
    pc = "running" => Cardinality(Downloading) <= max_workers

\* C6: every task queued before download_all is called is begun by a worker at
\* most once during the call and exactly once by the time it returns, and a
\* running download_all eventually returns.
C6_ExactlyOnceAndReturns ==
    /\ [](\A t \in TaskIds : execs[t] <= 1)
    /\ [](pc = "returned" => \A t \in TaskIds : execs[t] = 1)
    /\ [](pc = "running" /\ (\A t \in TaskIds : future[t] \in Done)
             => \A t \in TaskIds : execs[t] = 1)
    /\ (pc = "running") ~> (pc = "returned")

C6_Witness ==
    /\ pc = "returned"
    /\ Len(tasks) = MaxTasks
    /\ \A t \in TaskIds : execs[t] = 1
    /\ Failures # {}
    /\ run > 1

\* C8 as stated: in a second course run after a first run in which every fetch
\* succeeded, every queued task resolves as skipped.
C8_SecondRunAllSkipped ==
    (run > 1 /\ prevOk /\ pc = "returned")
        => \A t \in TaskIds : tasks[t].status = "skipped"

\* C8 amended: in a second course run after a first run in which every fetch
\* succeeded, no task enters the downloading status, nothing is written to disk,
\* and no queued task resolves as skipped: a PDF whose file exists is not
\* queued at all, a video task resolves as completed (already exists), and
\* none fails.
C8_SecondRunFetchesNothing ==
    /\ [](run > 1 /\ prevOk
            => /\ Downloading = {}
               /\ Failures = {}
               /\ \A t \in TaskIds : future[t] \notin Working
               /\ kind = "pdf" => tasks = <<>>
               /\ \A t \in TaskIds : future[t] \in Done
                      => tasks[t].status = "completed"
               /\ pc = "returned" => \A t \in TaskIds : future[t] = "true")
    /\ [][run > 1 /\ prevOk /\ run' = run => disk' = disk]_vars

C8_Witness ==
    /\ run > 1 /\ prevOk /\ pc = "returned"
    /\ kind = "video"
    /\ Len(tasks) = MaxTasks
    /\ \A t \in TaskIds : tasks[t].status = "completed" /\ execs[t] = 1
\* ======================================================== course properties
\* C7: a fetcher invoked on a destination that already exists (even a zero-byte
\* file) issues no network request, leaves the file as it was and returns
\* success; stated here for FileDownloader.download.
C7_ExistingDestinationUntouched ==
    (fd.pc # "idle" /\ fd.existed)
        => /\ fd.requests = 0
           /\ Exists(fd.path)
           /\ disk[fd.path] = fd.before
           /\ fd.pc = "done" => fd.result

\* C9: in download_course a lesson that is a key of the manifest loaded at the
\* start of the run is never re-processed: download_lesson_materials is not
\* called for it and its record stays as loaded, whatever files it records.
C9_LoadedLessonsUntouched ==
    cpc # "stopped"
        => \A l \in DOMAIN loaded :
               /\ l \notin processed
               /\ l \in DOMAIN manifest
               /\ manifest[l] = loaded[l]

C9_Witness ==
    /\ cpc = "lesson"
    /\ idx > MaxLessons
    /\ processed # {}
    /\ \E l \in DOMAIN loaded : loaded[l].files = <<>> /\ ~Exists(PdfPath(l))

\* C10: a lesson that start_lesson marked in an earlier run is skipped by every
\* later run: download_lesson_materials is called only for lessons first
\* marked in the current run.
C10_StartedLessonsSkipped ==
    \A l \in processed : startedIn[l] = runs
\* ====================================================== manifest properties
IsPrefix(a, b) == Len(a) <= Len(b) /\ SubSeq(b, 1, Len(a)) = a

\* C14: across start_lesson, add_file and finish_lesson calls the files list of
\* a lesson only grows at its end: every record already there keeps its index
\* and all its fields.
C14_FilesAppendOnly ==
    api.op \in {"start_lesson", "add_file", "finish_lesson"}
        => \A l \in DOMAIN api.before :
               /\ l \in DOMAIN manifest
               /\ IsPrefix(api.before[l].files, manifest[l].files)

C14_Witness ==
    /\ api.op = "add_file"
    /\ api.title \in DOMAIN api.before
    /\ api.before[api.title].files # <<>>
    /\ api.before[api.title].completed
    /\ Len(manifest[api.title].files) = Len(api.before[api.title].files) + 1
    /\ manifest[api.title].files[1] # manifest[api.title].files[2]

\* C15: start_lesson on a title already in the manifest leaves the manifest as
\* it was (timestamp, files, total_files, completed_at); on an absent title it
\* adds an entry with an empty files list and changes nothing else.
C15_StartLessonIdempotent ==
    api.op = "start_lesson"
        => IF api.title \in DOMAIN api.before
           THEN manifest = api.before
           ELSE /\ DOMAIN manifest = DOMAIN api.before \cup {api.title}
                /\ manifest[api.title].files = <<>>
                /\ manifest[api.title].total_files = 0
                /\ ~manifest[api.title].completed
                /\ \A l \in DOMAIN api.before : manifest[l] = api.before[l]

C15_Witness ==
    /\ api.op = "start_lesson"
    /\ api.title \in DOMAIN api.before
    /\ api.before[api.title].files # <<>>
    /\ api.before[api.title].completed
    /\ api.before[api.title].timestamp < api.calls

C17_BadFileLoadsEmpty ==
    /\ (api.op = "construct" /\ api.file.state \in {"absent", "corrupt"})
           => manifest = EmptyManifest
    /\ (api.op = "start_lesson" /\ api.before = EmptyManifest)
           => DOMAIN manifest = {api.title}

C17_Witness ==
    /\ api.op = "construct"
    /\ api.file.state = "corrupt"
    /\ api.file.data # <<>>
    /\ api.before # EmptyManifest
    /\ manifest = EmptyManifest
\* C12: files_manifest.json is never seen partly written: at every moment,
\* a crash during _save_manifest included, the file is absent or holds a whole
\* document, and loading it gives the manifest some save wrote.
C12_ManifestFileNeverPartial ==
    /\ manifest_file.state # "corrupt"
    /\ manifest_file.state = "ok" => Encode(LoadFrom(manifest_file)) = manifest_file.data
\* C13: when every concurrent add_file call on one manager has returned, the
\* record of each call is in the files list of its lesson and each lesson's
\* total_files is the length of its files list.
C13_ConcurrentAddFileKeepsRecords ==
    (th # <<>> /\ \A t \in Threads : th[t].pc = "done")
        => /\ \A t \in Threads :
                  \E i \in DOMAIN manifest[th[t].title].files :
                      manifest[th[t].title].files[i] = th[t].entry
           /\ \A l \in DOMAIN manifest :
                  manifest[l].total_files = Len(manifest[l].files)
\* ====================================================== detector properties
Abs(n) == IF n < 0 THEN -n ELSE n

\* C19: find_incomplete_courses reports a matched course exactly when the
\* platform lists more lessons than are on disk, with missing = remote - local
\* and progress the percentage local/remote to the nearest tenth; local 2 and
\* remote 17 give one report with missing 15 and 11.8%; remote 0 gives no
\* report and no division by zero.
C19_IncompleteReport ==
    det.phase = "reported"
        => /\ Len(det.reports) = (IF det.matched /\ det.remote > det.local THEN 1 ELSE 0)
           /\ ~det.raised
           /\ \A i \in DOMAIN det.reports :
                  /\ det.reports[i].missing = det.remote - det.local
                  /\ 2 * Abs(det.reports[i].progress * det.remote - 1000 * det.local)
                         <= det.remote
           /\ (det.matched /\ det.local = 2 /\ det.remote = 17)
                  => /\ det.reports[1].missing = 15
                     /\ det.reports[1].progress = 118
           /\ det.remote = 0 => det.reports = <<>>

C19_Witness ==
    /\ det.phase = "reported"
    /\ det.local = 2 /\ det.remote = 17
    /\ det.name1 # det.name2
    /\ Len(det.reports) = 1
    /\ det.reports[1].missing = 15
    /\ det.reports[1].progress = 118

\* the title with upper case folded and everything but letters and digits
\* removed
AlnumOnly(name) == SelectSeq(lower(name), LAMBDA c : c \in LowerAlnum \cup {"á"})

\* C20: _courses_match returns true for two titles that are equal once case is
\* ignored and every non-alphanumeric character (whitespace, underscores,
\* punctuation) is removed, and for "Curso_de_Python_Basico" against
\* "Curso de Python: Básico!".
C20_MatchAfterStripping ==
    det.phase = "matched"
        => /\ AlnumOnly(det.name1) = AlnumOnly(det.name2) => det.matched
           /\ (det.name1 = ExampleLocal /\ det.name2 = ExampleRemote) => det.matched
\* ======================================================== driver properties
\* C11: whenever run_downloader has finished a lesson, files_manifest.json
\* holds the entry of every lesson finished so far with each file record added
\* to it.
C11_FlushedAfterEachLesson ==
    (cpc \in {"main_lesson", "main_done"} /\ processed # {})
        => /\ manifest_file.state = "ok"
           /\ \A l \in processed :
                  /\ l \in DOMAIN LoadFrom(manifest_file)
                  /\ LoadFrom(manifest_file)[l].files = manifest[l].files

\* C18: every file record in the manifest of run_downloader has the status
\* success, error or skipped, the records written back from the tasks of the
\* two schedulers included.
C18_RecordStatusInVocabulary ==
    cpc \in {"main_lesson", "main_collect", "main_pdfs", "main_videos",
             "main_video_tasks", "main_done"}
        => \A l \in DOMAIN manifest : \A i \in DOMAIN manifest[l].files :
               manifest[l].files[i].status \in {"success", "error", "skipped"}
\* ===================================================== sanitizer properties
\* C29: for every input, sanitizing the result of either sanitize_filename
\* again gives the same name, and the result holds none of the characters
\* < > : " / \ | ? *.
C29_SanitizeIdempotent ==
    san.phase = "called"
        => /\ san.twice = san.once
           /\ \A i \in DOMAIN san.once : san.once[i] \notin Forbidden

\* the characters a sanitizer takes out of a name or trims from its ends
Removed(which) ==
    IF which = "utils" THEN Forbidden \cup Whitespace
    ELSE Forbidden \cup Whitespace \cup {".", ",", "_", "-"}

\* C30: either sanitize_filename returns "unnamed_file" for an empty input and
\* for an input that sanitizing reduces to nothing, and never the empty string.
C30_NeverEmptyName ==
    san.phase = "called"
        => /\ san.once # <<>>
           /\ san.input = <<>> => san.once = UnnamedFile
           /\ (\A i \in DOMAIN san.input : san.input[i] \in Removed(san.which))
                  => san.once = UnnamedFile
\* ==================================================== local count properties
\* C21: the local lesson count of a course is the number of lesson keys of its
\* manifest when files_manifest.json is there, and the number of lesson
\* directories when it is not; logs and other directories are never counted.
C21_LocalLessonCount ==
    cnt.phase = "listed"
        => /\ cnt.file.state = "ok"
                  => Cardinality(cnt.lessons) = Cardinality(DOMAIN Decode(cnt.file.data))
           /\ cnt.file.state = "absent"
                  => Cardinality(cnt.lessons)
                         = Cardinality({item \in cnt.dirs : item.type = "lesson"})
           /\ \A item \in cnt.lessons : item.type = "lesson"
\* ============================================================ scan properties
\* C22: when counting the lessons of a matched course on the platform times
\* out or raises, the count is 0 and the course is not reported; the scan is
\* not aborted, examines every local course and returns.
C22_CountFailureTolerated ==
    /\ scan.phase # "aborted"
    /\ (scan.phase \in {"loop", "returned"} /\ scan.course > 1
            /\ scan.page \in {"timeout", "error"})
           => scan.platform_total = 0 /\ ~scan.reported
    /\ scan.phase = "returned" => scan.course = MaxCourses + 1

C22_Witness ==
    /\ scan.phase = "returned"
    /\ scan.failures = 1
    /\ scan.page = "ok"
    /\ scan.reported
    /\ scan.found = 1
\* =========================================================== batch properties
\* C23: an exception raised while one selected course is processed does not
\* end the batch: every later selected course is still processed.
C23_CourseFailureIsolated ==
    (batch.phase = "exited" /\ batch.raisedIn # 0)
        => \A c \in DOMAIN batch.selected : c > batch.raisedIn => c \in batch.attempted

\* C24: whenever run_downloader gives up the whole run, because of an
\* exception at top level or because the download directory cannot be
\* created, an error message has been handed to the notifier before the exit.
C24_AbortIsNotified ==
    (batch.phase = "exited" /\ batch.abort # "none") => batch.error_notices > 0
\* =================================================== configuration properties
\* C25: an invalid configuration (a worker count outside 1..10, or Telegram
\* enabled without bot token or chat id) is rejected with an error by the call
\* that receives it, and no network request has been issued.
InvalidConfiguration ==
    \/ cfg.op = "manager" /\ cfg.requested \notin 1..PDF_MAX_WORKERS
    \/ /\ cfg.op \in {"validate", "notifier"}
       /\ cfg.TELEGRAM_ENABLED
       /\ ~(cfg.TELEGRAM_BOT_TOKEN /\ cfg.TELEGRAM_CHAT_ID)

C25_InvalidConfigRejected ==
    (cfg.phase = "returned" /\ InvalidConfiguration)
        => (cfg.error # "none" /\ cfg.requests = 0)
\* ============================================================ one writer a path
\* C26: during download_all at most one worker at a time has a given
\* destination path open for writing: no two tasks with the same file_path are
\* both inside `with open(task.file_path, 'wb')`.
C26_OneWriterPerPath ==
    \A t, u \in TaskIds :
        (t # u /\ tasks[t].file_path = tasks[u].file_path)
            => ~(future[t] = "stream" /\ future[u] = "stream")
\* ======================================================= notifier properties
\* C27: any two consecutive requests posted by TelegramNotifier.send are at
\* least min_interval apart, whether the earlier ones succeeded or failed.
C27_SendsSpacedByMinInterval ==
    Len(tg.sent) >= 2 =>
        tg.sent[Len(tg.sent)] - tg.sent[Len(tg.sent) - 1] >= min_interval
\* ======================================================== monitor properties
\* C28: the progress monitor only observes: no step of its display loop, of
\* add_task, remove_task, start or stop changes a field of a task, the
\* scheduler's task list or its counters.
C28_MonitorOnlyObserves ==
    [][mon' # mon => /\ tasks' = tasks
                     /\ completed_tasks' = completed_tasks
                     /\ failed_tasks' = failed_tasks
                     /\ skipped_tasks' = skipped_tasks]_vars

\* the monitor has shown a task that has received data and is still registered
C28_Witness ==
    /\ pc = "running"
    /\ mon.running
    /\ \E t \in TaskIds :
          /\ file_name(t) \in DOMAIN mon.active_tasks
          /\ mon.active_tasks[file_name(t)] = t
          /\ tasks[t].bytes_downloaded > 0
          /\ ProgressLine(tasks[t]) \in mon.shown
\* =========================================================== pairing properties
\* the exact rules of _courses_match: the original title of the sidecar, or
\* equality of the lowered and stripped names
ExactMatch(name, title, meta) ==
    \/ meta.exists /\ strip(lower(meta.original_title)) = strip(lower(title))
    \/ strip(lower(name)) = strip(lower(title))

\* C31: when some course of the catalog matches the local course by an exact
\* rule, find_incomplete_courses pairs the local course with a course that
\* matches by an exact rule, in whatever order the catalog lists its courses.
C31_ExactMatchPreferred ==
    (pair.phase = "paired"
       /\ \E i \in DOMAIN pair.catalog : ExactMatch(pair.name, pair.catalog[i], pair.meta))
        => /\ pair.platform_course # 0
           /\ ExactMatch(pair.name, pair.catalog[pair.platform_course], pair.meta)
\* ====================================================== truncated files
\* C32: a truncated file left on disk by a fetch that failed mid-stream is not
\* accepted as an already-downloaded file: when a later call or run reports a
\* task as skipped or completed, its file is on disk in full. (Tasks have
\* distinct paths and the disk was empty at first, so a shorter file can only
\* be what a failed fetch of that task left.)
C32_TruncatedNeverAccepted ==
    (second /\ pc = "returned" /\ DistinctPaths)
        => \A t \in TaskIds :
              (future[t] = "true" /\ tasks[t].status \in {"skipped", "completed"})
                  => /\ Exists(tasks[t].file_path)
                     /\ disk[tasks[t].file_path] = BodyChunks
\* ================================================ records after the download
\* C33: in download_lesson_materials and download_playlist_videos the manifest
\* records of a scheduler's tasks are added after download_all /
\* download_all_videos has returned: no step changes the manifest while the
\* scheduler is running or one of its workers is downloading.
C33_RecordsAfterReturn ==
    [][manifest' # manifest =>
          /\ pc # "running"
          /\ \A t \in TaskIds : future[t] \notin Working \cup {"queued"}]_vars

\* the tasks of a PDF manager have been recorded, one of them downloaded
C33_Witness ==
    /\ cpc = "main_videos"
    /\ kind = "pdf"
    /\ pc = "returned"
    /\ \E t \in TaskIds : tasks[t].status = "completed"
    /\ idx \in DOMAIN manifest
    /\ \E i \in DOMAIN manifest[idx].files : manifest[idx].files[i].status = "completed"
\* ========================================================= summary properties
\* C34: every result of get_progress_summary, also one taken while workers
\* change the statuses, counts each task of the manager in exactly one status:
\* completed + downloading + pending + failed + skipped = number of tasks.
C34_SummaryCountsAddUp ==
    obs.phase = "returned" =>
        obs.counts["completed"] + obs.counts["downloading"] + obs.counts["pending"]
            + obs.counts["failed"] + obs.counts["skipped"] = Cardinality(obs.copy)

\* C35: the progress_percentage of get_progress_summary and the value of
\* get_progress_percentage of every task lie between 0 and 100 at every
\* moment, whatever content-length the server reports and however observer
\* and workers interleave.
C35_PercentagesWithinRange ==
    /\ obs.phase = "returned" => obs.progress_percentage \in 0..10000
    /\ \A t \in TaskIds : get_progress_percentage(tasks[t]) \in 0..100
\* ====================================================== returned statistics
\* C36: the statistics returned by download_all satisfy completed + failed +
\* skipped = total and those of download_all_videos completed + failed =
\* total, for every set of queued tasks and outcomes, also when the call is
\* repeated on the same manager.
C36_StatisticsAddUp ==
    pc = "returned" =>
        IF kind = "pdf"
        THEN Stats.completed + Stats.failed + Stats.skipped = Stats.total
        ELSE Stats.completed + Stats.failed = Stats.total

\* a repeated call on the same manager has returned with failures and successes
C36_Witness ==
    /\ pc = "returned"
    /\ second
    /\ run = 1
    /\ Stats.total = MaxTasks
    /\ Stats.failed > 0
    /\ Stats.completed + Stats.skipped > 0
\* ========================================================= loop properties
\* C37: after any sequence of start() and stop() calls at most one background
\* thread runs the loop of a ProgressMonitor, and at most one heartbeat thread
\* runs for a SessionKeepAlive of either version.
C37_AtMostOneLoopThread == LoopThreads <= 1
\* ======================================================== segment properties
\* C38: for every total size >= 1 and every segment count n in 2..16 the byte
\* ranges of download_video_segmented are n ranges with start <= end, pairwise
\* disjoint, that together cover exactly the bytes 0 .. total_size - 1.
C38_RangesPartitionTheFile ==
    seg.phase = "computed" =>
        /\ Len(seg.ranges) = seg.num_segments
        /\ \A k \in DOMAIN seg.ranges : seg.ranges[k].start_byte <= seg.ranges[k].end_byte
        /\ \A j, k \in DOMAIN seg.ranges :
              j # k => (seg.ranges[j].start_byte..seg.ranges[j].end_byte)
                          \cap (seg.ranges[k].start_byte..seg.ranges[k].end_byte) = {}
        /\ UNION {seg.ranges[k].start_byte..seg.ranges[k].end_byte : k \in DOMAIN seg.ranges}
              = 0..(seg.total_size - 1)
\* C39: whenever download_video_segmented returns failure, because a segment
\* failed or the merge failed, it has left no file, complete or partial, at
\* the final output path.
C39_FailureLeavesNoOutput ==
    (seg.phase = "returned" /\ seg.result = "failed")
        => seg.output = (IF seg.existed THEN "old" ELSE "absent")
====
